---- MODULE Spec2Model ----
(***************************************************************************)
(* The map-state orchestrator of cartographer, mapping/map_builder.cc:     *)
(* trajectory-id allocation (AddTrajectoryBuilder,                         *)
(* AddTrajectoryForDeserialization) and the streaming load of a saved      *)
(* state (LoadState) with its trajectory-id remapping.                     *)
(*                                                                         *)
(* The pose graph, the proto stream reader/deserializer and the writer     *)
(* (io::WritePbStream) are code outside map_builder.cc; they are modelled  *)
(* from the behaviour the design document states for them.                 *)
(*                                                                         *)
(* A fatal CHECK, a std::out_of_range leaving LoadState uncaught, and a    *)
(* crash all end the process: pc = "failed" is terminal.                   *)
(***************************************************************************)
EXTENDS Integers, Sequences, FiniteSets, TLC

(***************************************************************************)
(* Bounds of the model.                                                    *)
(***************************************************************************)
\* cap on trajectory_builders_.size()
MaxTrajectories == 3
\* cap on the number of input items one orchestrator receives: live
\* trajectories, trajectories and constraints of loaded summaries, streamed
\* records and live raw sensor records
MaxInputs == 3
\* cap on the number of LoadState calls on one orchestrator
MaxLoads == 2

\* cap on the number of constraints of one pose-graph summary
MaxSavedConstraints == 2

\* trajectory ids that occur in saved states
SavedIds == {0, 1}
\* submap / node indices that occur in streamed records
SavedIndices == {0, 1}

(***************************************************************************)
(* Values.                                                                 *)
(***************************************************************************)
\* proto::TrajectoryBuilderOptions, reduced to the fields map_builder.cc reads
OptionsA ==
  [pure_localization |-> FALSE, has_initial_trajectory_pose |-> FALSE,
   has_overlapping_submaps_trimmer_2d |-> FALSE]
OptionsB ==
  [pure_localization |-> TRUE, has_initial_trajectory_pose |-> TRUE,
   has_overlapping_submaps_trimmer_2d |-> TRUE]
OptionsC ==
  [pure_localization |-> TRUE, has_initial_trajectory_pose |-> FALSE,
   has_overlapping_submaps_trimmer_2d |-> FALSE]
OptionsUniverse == {OptionsA, OptionsB, OptionsC}


\* constexpr int kSubmapsToKeep = 3;
kSubmapsToKeep == 3

\* A pose as the proto carries it, and transform::ToRigid3 / ToProto.
PoseProto(p) == [translation |-> p]
ToRigid3(proto) == proto.translation

\* A call made on the pose graph (or AddTrajectoryForDeserialization), as
\* one record shape: op, ids, pose and constraint list.
Call(op, t, i, t2, i2, pose, list) ==
  [op |-> op, trajectory_id |-> t, index |-> i, trajectory_id2 |-> t2,
   index2 |-> i2, pose |-> pose, list |-> list]
CallT(op, t) == Call(op, t, -1, -1, -1, -1, <<>>)

\* Sequences over S of length at most n.
SeqUpTo(S, n) == UNION { [1..k -> S] : k \in 0..n }

\* The set of elements of a sequence.
Range(s) == { s[k] : k \in DOMAIN s }

VARIABLES
  trajectory_builders_,             \* vector<unique_ptr<TrajectoryBuilderInterface>>
  all_trajectory_builder_options_,  \* vector<TrajectoryBuilderOptionsWithSensorIds>
  sensor_collator_,                 \* trajectory ids attached to the collator
  pose_graph_,                      \* the pose graph's state
  pc,                               \* "idle", the position inside LoadState, "failed"
  failure,                          \* why the process ended, "" while it runs
  load_frozen_state,                \* LoadState's parameter
  deserializer,                     \* the summary and options the deserializer read
  pose_graph_proto,                 \* LoadState's mutable copy of the summary
  trajectory_remapping,             \* std::map<int, int> old -> new
  submap_poses,                     \* MapById<SubmapId, Rigid3d>
  node_poses,                       \* MapById<NodeId, Rigid3d>
  next_trajectory,                  \* position of the allocation loop (1-based)
  reader_eof,                       \* reader->eof()
  created,                          \* history: every trajectory id returned, in order
  first_new,                        \* history: trajectory count when this load began
  graph_at_begin,                   \* history: the pose graph when this load began
  writer,                           \* what SerializeState wrote, as its reader sees it
  graph_at_save,                    \* history: the pose graph SerializeState wrote
  loads,                            \* history: number of LoadState calls begun
  inputs_used,                      \* history: input items received so far
  last_record,                      \* history: the record the last step dispatched
  step_calls,                       \* history: the calls the last step made, in order
  response,                         \* the SubmapQuery::Response the caller passes
  returned,                         \* the string the last query returned
  collator_finished,                \* trajectory ids the collator was told are finished
  landmark_poses_file,              \* LoadStateLandmark's parameter, as the file reads
  hasObstablePoints,                \* ObstableDetection::hasObstablePoints
  obstableMsg,                      \* ObstableDetection::obstableMsg
  published,                        \* the messages published on "aibee_navi", in order
  last_cloud,                       \* history: the points the last callback looked at
  callbacks                         \* history: number of laser callbacks run

vars == << trajectory_builders_, all_trajectory_builder_options_, sensor_collator_,
           pose_graph_, pc, failure, load_frozen_state, deserializer,
           pose_graph_proto, trajectory_remapping, submap_poses, node_poses,
           next_trajectory, reader_eof, created, first_new, graph_at_begin,
           writer, graph_at_save, loads, inputs_used, last_record, step_calls,
           response, returned, collator_finished, landmark_poses_file,
           hasObstablePoints, obstableMsg, published, last_cloud, callbacks >>

orchestrator == << trajectory_builders_, all_trajectory_builder_options_, sensor_collator_ >>
load_locals == << load_frozen_state, deserializer, pose_graph_proto, trajectory_remapping,
                  submap_poses, node_poses, next_trajectory, reader_eof, first_new,
                  graph_at_begin >>
save_vars == << writer, graph_at_save >>
query_vars == << response, returned, collator_finished >>
landmark_vars == << landmark_poses_file >>
detection_vars == << hasObstablePoints, obstableMsg, published, last_cloud, callbacks >>

(***************************************************************************)
(* The pose graph (PoseGraph2D / PoseGraph3D behind PoseGraphInterface).   *)
(* Its state is one record; each operation maps a state to the next.       *)
(***************************************************************************)
PoseGraphInit ==
  [ frozen                |-> {},      \* trajectories frozen by FreezeTrajectory
    submap_data           |-> << >>,   \* <<trajectory_id, submap_index>> -> global pose
    trajectory_nodes      |-> << >>,   \* <<trajectory_id, node_index>> -> global pose
    constraints           |-> << >>,   \* the constraints, in insertion order
    node_to_submap        |-> {},      \* <<node key, submap key>> membership
    landmark_poses        |-> << >>,   \* landmark_id -> global pose
    trajectory_data       |-> {},      \* trajectories with trajectory data set
    imu_data              |-> << >>,   \* trajectory_id -> number of raw records kept
    odometry_data         |-> << >>,
    fixed_frame_pose_data |-> << >>,
    landmark_data         |-> << >>,
    trimmers              |-> {},      \* registered trimmers
    initial_trajectory_poses |-> {},   \* trajectories with an initial pose
    optimizations_scheduled  |-> 0,    \* optimizer work scheduled by constraints
    finished              |-> {},      \* trajectories FinishTrajectory was called for
    local_current_submap  |-> << >> ]  \* key of the current local submap, << >> if none

FreezeTrajectory(pg, t) == [pg EXCEPT !.frozen = @ \cup {t}]

IsTrajectoryFrozen(pg, t) == t \in pg.frozen

HasSubmap(pg, t, i) == <<t, i>> \in DOMAIN pg.submap_data
HasNode(pg, t, i) == <<t, i>> \in DOMAIN pg.trajectory_nodes

\* a SubmapData whose submap pointer is nullptr
NullSubmap == << >>

\* GetSubmapData: {submap, pose} of a submap the graph holds, a null submap
\* for one it does not hold (never added, or trimmed)
GetSubmapData(pg, t, i) ==
  IF HasSubmap(pg, t, i)
  THEN [submap |-> <<t, i>>, pose |-> pg.submap_data[<<t, i>>]]
  ELSE [submap |-> NullSubmap, pose |-> -1]

\* GetLocalCurrentSubmap: the current local submap, a null submap if none
GetLocalCurrentSubmap(pg) ==
  [submap |-> pg.local_current_submap, pose |-> -1]

\* PoseGraph::FinishTrajectory: no more new nodes will arrive for t
PoseGraphFinishTrajectory(pg, t) == [pg EXCEPT !.finished = @ \cup {t}]

\* a trimmer removes one submap: its global pose entry goes, and with it the
\* constraints to it and the membership of nodes in it; node records stay
TrimSubmap(pg, t, i) ==
  LET keeps(c) == ~(c.submap_id.trajectory_id = t /\ c.submap_id.submap_index = i)
  IN [pg EXCEPT
        !.submap_data = [key \in DOMAIN @ \ {<<t, i>>} |-> @[key]],
        !.constraints = SelectSeq(@, keeps),
        !.node_to_submap = { m \in @ : m[2] # <<t, i>> }]

\* registers the submap at its global pose; the caller checks HasSubmap first
AddSubmapFromProto(pg, pose, t, i) ==
  [pg EXCEPT !.submap_data = (<<t, i>> :> pose) @@ @]

AddNodeFromProto(pg, pose, t, i) ==
  [pg EXCEPT !.trajectory_nodes = (<<t, i>> :> pose) @@ @]

SetTrajectoryDataFromProto(pg, t) == [pg EXCEPT !.trajectory_data = @ \cup {t}]

\* one more record kept for trajectory t in a raw-data store
OneMore(store, t) ==
  IF t \in DOMAIN store THEN [store EXCEPT ![t] = @ + 1] ELSE (t :> 1) @@ store

\* raw sensor context: appended, or silently skipped for a frozen trajectory
AddImuData(pg, t) ==
  IF IsTrajectoryFrozen(pg, t) THEN pg ELSE [pg EXCEPT !.imu_data = OneMore(@, t)]
AddOdometryData(pg, t) ==
  IF IsTrajectoryFrozen(pg, t) THEN pg
  ELSE [pg EXCEPT !.odometry_data = OneMore(@, t)]
AddFixedFramePoseData(pg, t) ==
  IF IsTrajectoryFrozen(pg, t) THEN pg
  ELSE [pg EXCEPT !.fixed_frame_pose_data = OneMore(@, t)]
AddLandmarkData(pg, t) ==
  IF IsTrajectoryFrozen(pg, t) THEN pg
  ELSE [pg EXCEPT !.landmark_data = OneMore(@, t)]

\* upsert by id
SetLandmarkPose(pg, id, pose) ==
  [pg EXCEPT !.landmark_poses = (id :> pose) @@ @]

AddNodeToSubmap(pg, nt, ni, st, si) ==
  [pg EXCEPT !.node_to_submap = @ \cup { << <<nt, ni>>, <<st, si>> >> }]

\* membership of the INTRA_SUBMAP constraints, the constraints themselves,
\* and one unit of optimizer work
AddSerializedConstraints(pg, list) ==
  [pg EXCEPT
     !.constraints = @ \o list,
     !.node_to_submap = @ \cup
        { << <<list[k].node_id.trajectory_id, list[k].node_id.node_index>>,
             <<list[k].submap_id.trajectory_id, list[k].submap_id.submap_index>> >> :
          k \in { j \in DOMAIN list : list[j].tag = "INTRA_SUBMAP" } },
     !.optimizations_scheduled = @ + 1]

AddTrimmer(pg, trimmer) == [pg EXCEPT !.trimmers = @ \cup {trimmer}]

SetInitialTrajectoryPose(pg, t) ==
  [pg EXCEPT !.initial_trajectory_poses = @ \cup {t}]

\* number of records a raw-data store keeps for trajectory t
Kept(store, t) == IF t \in DOMAIN store THEN store[t] ELSE 0

\* number of raw records of every kind the graph keeps for trajectory t
RawDataCount(pg, t) ==
  Kept(pg.imu_data, t) + Kept(pg.odometry_data, t)
  + Kept(pg.fixed_frame_pose_data, t) + Kept(pg.landmark_data, t)

(***************************************************************************)
(* MapBuilder: trajectory creation.                                        *)
(***************************************************************************)
\* options_.use_trajectory_builder_3d(): this orchestrator is built for 2D
use_trajectory_builder_3d == FALSE

\* faulty variant: the id taken after the builder was pushed
NextTrajectoryId_AfterPush(builders) == Len(builders) + 1

\* const int trajectory_id = trajectory_builders_.size();
NextTrajectoryId(builders) == Len(builders)

\* faulty variant: a live builder for a deserialized trajectory
DeserializationBuilder_Collated == "CollatedTrajectoryBuilder"

\* what AddTrajectoryForDeserialization puts into trajectory_builders_:
\* emplace_back() of an empty unique_ptr, attached to nothing
DeserializationBuilder == "null"

\* the collator after AddTrajectoryForDeserialization: unchanged
CollatorAfterDeserialization(collator, trajectory_id) == collator

\* a SubmapQuery::Response nothing was written to
NoResponse == [submap |-> << >>, pose |-> -1]

\* no LoadState is running: the caller may start any operation
Idle == pc \in {"idle", "returned"}

NoRecord == [data_case |-> "none", trajectory_id |-> -1, index |-> -1]

EmptySummary == [trajectory |-> << >>, constraint |-> << >>, landmark_poses |-> << >>]
NoSavedState == [pose_graph |-> EmptySummary, all_trajectory_builder_options |-> << >>]

\* nothing written: no summary, no records
NoWriter == [written |-> FALSE, state |-> NoSavedState, records |-> << >>]

\* LoadState has no landmark file; LoadStateLandmark gets the name of one
NoLandmarkFile == [given |-> FALSE, opens |-> FALSE, lines |-> << >>]

\* obstable_detection::obstable_detection_msg as constructed: string_array
\* has an element 0, an empty string
NoObstableMsg == [string_array |-> << "" >>]

\* no laser callback has looked at a cloud
NoCloud == [sensor |-> "none", points |-> << >>]

\* the obstacle detection node is a process of its own: it is not running
\* beside the orchestrator
NoDetection ==
  /\ hasObstablePoints = FALSE
  /\ obstableMsg = NoObstableMsg
  /\ published = << >>
  /\ last_cloud = NoCloud
  /\ callbacks = 0

\* LoadState's locals are gone once the caller goes on after its return
LoadLocalsGone ==
  /\ load_frozen_state' = FALSE
  /\ deserializer' = NoSavedState
  /\ pose_graph_proto' = EmptySummary
  /\ trajectory_remapping' = << >>
  /\ submap_poses' = << >>
  /\ node_poses' = << >>
  /\ next_trajectory' = 1
  /\ reader_eof' = FALSE
  /\ first_new' = 0
  /\ graph_at_begin' = PoseGraphInit

Init ==
  /\ trajectory_builders_ = << >>
  /\ all_trajectory_builder_options_ = << >>
  /\ sensor_collator_ = {}
  /\ pose_graph_ = PoseGraphInit
  /\ pc = "idle"
  /\ failure = ""
  /\ load_frozen_state = FALSE
  /\ deserializer = NoSavedState
  /\ pose_graph_proto = EmptySummary
  /\ trajectory_remapping = << >>
  /\ submap_poses = << >>
  /\ node_poses = << >>
  /\ next_trajectory = 1
  /\ reader_eof = FALSE
  /\ created = << >>
  /\ first_new = 0
  /\ graph_at_begin = PoseGraphInit
  /\ writer = NoWriter
  /\ graph_at_save = PoseGraphInit
  /\ loads = 0
  /\ inputs_used = 0
  /\ last_record = NoRecord
  /\ step_calls = << >>
  /\ response = NoResponse
  /\ returned = ""
  /\ collator_finished = {}
  /\ landmark_poses_file = NoLandmarkFile
  /\ NoDetection

\* faulty variant: the options of a deserialized trajectory not recorded
AddTrajectoryForDeserialization_NoOptions(builders, all_options, collator, options_proto) ==
  [ trajectory_id |-> Len(builders),
    builders      |-> Append(builders, "null"),
    all_options   |-> all_options,
    collator      |-> collator ]

\* MapBuilder::AddTrajectoryForDeserialization: the id it returns and the
\* orchestrator's fields after it
AddTrajectoryForDeserialization(builders, all_options, collator, options_proto) ==
  LET trajectory_id == NextTrajectoryId(builders)
  IN [ trajectory_id |-> trajectory_id,
       builders      |-> Append(builders, DeserializationBuilder),
       all_options   |-> Append(all_options, options_proto),
       collator      |-> CollatorAfterDeserialization(collator, trajectory_id) ]

\* faulty variant: the trimmer decided by the initial pose of the options
IsPureLocalization_InitialPose(trajectory_options) == trajectory_options.has_initial_trajectory_pose

\* line 147: if (trajectory_options.pure_localization())
IsPureLocalization(trajectory_options) == trajectory_options.pure_localization

\* MapBuilder::AddTrajectoryBuilder
AddTrajectoryBuilder(trajectory_options) ==
  LET trajectory_id == NextTrajectoryId(trajectory_builders_)
      pg1 == IF ~use_trajectory_builder_3d
                /\ trajectory_options.has_overlapping_submaps_trimmer_2d
             THEN AddTrimmer(pose_graph_, [kind |-> "OverlappingSubmapsTrimmer2D",
                                           trajectory_id |-> -1, keep |-> -1])
             ELSE pose_graph_
      pg2 == IF IsPureLocalization(trajectory_options)
             THEN AddTrimmer(pg1, [kind |-> "PureLocalizationTrimmer",
                                   trajectory_id |-> trajectory_id,
                                   keep |-> kSubmapsToKeep])
             ELSE pg1
      pg3 == IF trajectory_options.has_initial_trajectory_pose
             THEN SetInitialTrajectoryPose(pg2, trajectory_id)
             ELSE pg2
  IN
  /\ Idle
  /\ Len(trajectory_builders_) < MaxTrajectories
  /\ inputs_used < MaxInputs
  /\ inputs_used' = inputs_used + 1
  /\ pc' = "idle"
  /\ trajectory_builders_' = Append(trajectory_builders_, "CollatedTrajectoryBuilder")
  /\ sensor_collator_' = sensor_collator_ \cup {trajectory_id}
  /\ pose_graph_' = pg3
  /\ all_trajectory_builder_options_' =
       Append(all_trajectory_builder_options_, trajectory_options)
  /\ created' = Append(created, [id |-> trajectory_id, by |-> "AddTrajectoryBuilder",
                                 load |-> -1, saved |-> -1, frozen |-> FALSE])
  /\ step_calls' = << >>
  /\ last_record' = NoRecord
  /\ LoadLocalsGone
  /\ UNCHANGED << failure, loads, save_vars, query_vars, landmark_vars, detection_vars >>

\* MapBuilder::AddTrajectoryForDeserialization called by a client
AddTrajectoryForDeserializationCall(options_proto) ==
  LET added == AddTrajectoryForDeserialization(
                 trajectory_builders_, all_trajectory_builder_options_,
                 sensor_collator_, options_proto)
  IN
  /\ Idle
  /\ Len(trajectory_builders_) < MaxTrajectories
  /\ inputs_used < MaxInputs
  /\ inputs_used' = inputs_used + 1
  /\ pc' = "idle"
  /\ trajectory_builders_' = added.builders
  /\ all_trajectory_builder_options_' = added.all_options
  /\ sensor_collator_' = added.collator
  /\ created' = Append(created, [id |-> added.trajectory_id,
                                 by |-> "AddTrajectoryForDeserialization",
                                 load |-> -1, saved |-> -1, frozen |-> FALSE])
  /\ step_calls' = << >>
  /\ last_record' = NoRecord
  /\ LoadLocalsGone
  /\ UNCHANGED << pose_graph_, failure, loads, save_vars, query_vars, landmark_vars, detection_vars >>

(***************************************************************************)
(* Saved states: what a reader can hand to LoadState.                      *)
(***************************************************************************)
\* the global poses the summary lists for saved submap / node (t, i)
SubmapPoseOf(t, i) == 10 + 2 * t + i
NodePoseOf(t, i) == 20 + 2 * t + i

\* saved trajectory 0 holds submaps and nodes 0 and 1, every other one 0 only
SavedCount(t) == IF t = 0 THEN 2 ELSE 1

SummaryTrajectory(t) ==
  [ trajectory_id |-> t,
    submap |-> [k \in 1..SavedCount(t) |->
                  [submap_index |-> k - 1, pose |-> PoseProto(SubmapPoseOf(t, k - 1))]],
    node   |-> [k \in 1..SavedCount(t) |->
                  [node_index |-> k - 1, pose |-> PoseProto(NodePoseOf(t, k - 1))]] ]

MakeConstraint(nt, ni, st, si, tag) ==
  [ node_id   |-> [trajectory_id |-> nt, node_index |-> ni],
    submap_id |-> [trajectory_id |-> st, submap_index |-> si],
    tag       |-> tag ]

ConstraintUniverse ==
  { MakeConstraint(0, 0, 0, 0, "INTRA_SUBMAP"),
    MakeConstraint(1, 0, 0, 1, "INTER_SUBMAP"),
    MakeConstraint(1, 0, 1, 0, "INTRA_SUBMAP"),
    MakeConstraint(0, 1, 1, 0, "INTER_SUBMAP") }

\* the landmarks a summary lists: landmark "A" twice, with different poses
SavedLandmarks ==
  << [landmark_id |-> "A", global_pose |-> PoseProto(31)],
     [landmark_id |-> "B", global_pose |-> PoseProto(32)],
     [landmark_id |-> "A", global_pose |-> PoseProto(33)] >>

\* the trajectory-options summary: one entry per saved id, or too short
FullOptions == <<OptionsA, OptionsB>>
ShortOptions == <<OptionsB>>

SavedTrajectoryLists == SeqUpTo(SavedIds, Cardinality(SavedIds))

\* what the deserializer reads before the stream: the pose-graph summary and
\* the trajectory-options summary
SavedState(ids, cs, ls, options_list) ==
  [ pose_graph |->
      [ trajectory     |-> [k \in DOMAIN ids |-> SummaryTrajectory(ids[k])],
        constraint     |-> cs,
        landmark_poses |-> ls ],
    all_trajectory_builder_options |-> options_list ]

\* The saved states loaded:
\*  - two trajectories, with every constraint list up to MaxSavedConstraints;
\*  - every trajectory list (repeated ids included), without constraints;
\*  - one trajectory whose only constraint it can, or cannot, remap;
\*  - one trajectory and an options summary too short for saved id 1.
SavedStates ==
  { SavedState(ids, cs, SavedLandmarks, FullOptions) :
      ids \in { <<0, 1>>, <<1, 0>> },
      cs \in SeqUpTo(ConstraintUniverse, MaxSavedConstraints) }
  \cup
  { SavedState(ids, << >>, << >>, FullOptions) : ids \in SavedTrajectoryLists }
  \cup
  { SavedState(<<t>>, << MakeConstraint(0, 0, 0, 0, "INTRA_SUBMAP") >>,
               SavedLandmarks, FullOptions) : t \in SavedIds }
  \cup
  { SavedState(<<t>>, << >>, << >>, ShortOptions) : t \in SavedIds }

StreamRecords ==
  { [data_case |-> d, trajectory_id |-> -1, index |-> -1] :
      d \in {"kPoseGraph", "kAllTrajectoryBuilderOptions", "DATA_NOT_SET"} }
  \cup { [data_case |-> d, trajectory_id |-> t, index |-> i] :
           d \in {"kSubmap", "kNode"}, t \in SavedIds, i \in SavedIndices }
  \cup { [data_case |-> d, trajectory_id |-> t, index |-> -1] :
           d \in {"kTrajectoryData", "kImuData", "kOdometryData",
                  "kFixedFramePoseData", "kLandmarkData"},
           t \in SavedIds }

\* all_builder_options_proto.options_with_sensor_ids(index): the entry, or,
\* for an index outside the list, what an unchecked read can produce
OptionsWithSensorIds(list, index) ==
  IF index + 1 \in DOMAIN list
  THEN { [crash |-> FALSE, options |-> list[index + 1]] }
  ELSE { [crash |-> TRUE, options |-> OptionsA] }
       \cup { [crash |-> FALSE, options |-> o] : o \in OptionsUniverse }

(***************************************************************************)
(* MapBuilder::LoadState.                                                  *)
(***************************************************************************)
\* the input items of a saved state's summary
SavedStateSize(saved) ==
  Len(saved.pose_graph.trajectory) + Len(saved.pose_graph.constraint)

\* lines 223-230: the deserializer has read the summary and the options
LoadStateBegin(frozen, saved) ==
  /\ Idle
  /\ Len(trajectory_builders_) + Len(saved.pose_graph.trajectory) <= MaxTrajectories
  /\ loads < MaxLoads
  /\ inputs_used + SavedStateSize(saved) <= MaxInputs
  /\ loads' = loads + 1
  /\ inputs_used' = inputs_used + SavedStateSize(saved)
  /\ pc' = "allocate"
  /\ load_frozen_state' = frozen
  /\ deserializer' = saved
  /\ pose_graph_proto' = saved.pose_graph
  /\ trajectory_remapping' = << >>
  /\ submap_poses' = << >>
  /\ node_poses' = << >>
  /\ next_trajectory' = 1
  /\ reader_eof' = FALSE
  /\ first_new' = Len(trajectory_builders_)
  /\ graph_at_begin' = pose_graph_
  /\ last_record' = NoRecord
  /\ step_calls' = << >>
  /\ UNCHANGED << orchestrator, pose_graph_, failure, created, save_vars, query_vars, landmark_vars, detection_vars >>

\* faulty variants: the freeze left out; the flag read inverted
FreezeIfLoadingFrozen_Never(pg, frozen, new_trajectory_id) == pg
FreezeIfLoadingFrozen_Inverted(pg, frozen, new_trajectory_id) ==
  IF frozen THEN pg ELSE FreezeTrajectory(pg, new_trajectory_id)

\* lines 242-244: if (load_frozen_state) pose_graph_->FreezeTrajectory(id)
FreezeIfLoadingFrozen(pg, frozen, new_trajectory_id) ==
  IF frozen THEN FreezeTrajectory(pg, new_trajectory_id) ELSE pg

\* faulty variant: the saved id kept as the new id
Emplace_KeepSaved(remapping, old, new) == (old :> old) @@ remapping

\* lines 237-239: trajectory_remapping.emplace(old, new)
Emplace(remapping, old, new) == (old :> new) @@ remapping

\* faulty variant: the result of emplace not checked
EmplaceInserts_Always(remapping, old) == TRUE

\* lines 237-240: CHECK(trajectory_remapping.emplace(old, new).second)
EmplaceInserts(remapping, old) == old \notin DOMAIN remapping

\* lines 231-245, one iteration of the allocation loop
LoadAllocateTrajectory ==
  /\ pc = "allocate"
  /\ next_trajectory <= Len(pose_graph_proto.trajectory)
  /\ LET saved == pose_graph_proto.trajectory[next_trajectory].trajectory_id IN
     \E read \in OptionsWithSensorIds(deserializer.all_trajectory_builder_options, saved) :
       IF read.crash
       THEN /\ pc' = "failed"
            /\ failure' = "invalid read of options_with_sensor_ids"
            /\ step_calls' = << >>
            /\ UNCHANGED << orchestrator, pose_graph_, load_locals, created, loads,
                            inputs_used, last_record >>
       ELSE
         LET added == AddTrajectoryForDeserialization(
                        trajectory_builders_, all_trajectory_builder_options_,
                        sensor_collator_, read.options)
             new_trajectory_id == added.trajectory_id
         IN
         /\ trajectory_builders_' = added.builders
         /\ all_trajectory_builder_options_' = added.all_options
         /\ sensor_collator_' = added.collator
         /\ created' = Append(created, [id |-> new_trajectory_id, by |-> "LoadState",
                                        load |-> first_new, saved |-> saved,
                                        frozen |-> load_frozen_state])
         /\ IF ~EmplaceInserts(trajectory_remapping, saved)
            THEN /\ pc' = "failed"
                 /\ failure' = "Duplicate trajectory ID"
                 /\ step_calls' =
                      << CallT("AddTrajectoryForDeserialization", new_trajectory_id) >>
                 /\ UNCHANGED << pose_graph_, pose_graph_proto, trajectory_remapping,
                                 next_trajectory >>
            ELSE /\ trajectory_remapping' =
                      Emplace(trajectory_remapping, saved, new_trajectory_id)
                 /\ pose_graph_proto' =
                      [pose_graph_proto EXCEPT
                         !.trajectory[next_trajectory].trajectory_id = new_trajectory_id]
                 /\ pose_graph_' = FreezeIfLoadingFrozen(pose_graph_, load_frozen_state,
                                                         new_trajectory_id)
                 /\ step_calls' =
                      << CallT("AddTrajectoryForDeserialization", new_trajectory_id) >>
                      \o (IF load_frozen_state
                          THEN << CallT("FreezeTrajectory", new_trajectory_id) >>
                          ELSE << >>)
                 /\ next_trajectory' = next_trajectory + 1
                 /\ UNCHANGED << pc, failure >>
         /\ UNCHANGED << load_frozen_state, deserializer, submap_poses, node_poses,
                         reader_eof, first_new, graph_at_begin, loads, inputs_used,
                         last_record >>
  /\ UNCHANGED << save_vars, query_vars, landmark_vars, detection_vars >>

\* faulty variant: the node endpoint remapped through the submap's trajectory
RemapConstraint_BySubmap(remapping, c) ==
  [c EXCEPT !.submap_id.trajectory_id = remapping[c.submap_id.trajectory_id],
            !.node_id.trajectory_id = remapping[c.submap_id.trajectory_id]]

\* faulty variant: only the node endpoint remapped
RemapConstraint_NodeOnly(remapping, c) ==
  [c EXCEPT !.node_id.trajectory_id = remapping[c.node_id.trajectory_id]]

\* lines 249-252: both endpoints of one constraint through the remapping
RemapConstraint(remapping, c) ==
  [c EXCEPT !.submap_id.trajectory_id = remapping[c.submap_id.trajectory_id],
            !.node_id.trajectory_id = remapping[c.node_id.trajectory_id]]

\* trajectory_remapping.at(...) finds both endpoints of the constraint
CanRemapConstraint(remapping, c) ==
  /\ c.submap_id.trajectory_id \in DOMAIN remapping
  /\ c.node_id.trajectory_id \in DOMAIN remapping

\* faulty variant: the submap table filled from the node entries
SubmapPoseEntries_FromNodes(proto) ==
  UNION { { << proto.trajectory[k].trajectory_id,
               proto.trajectory[k].node[j].node_index,
               ToRigid3(proto.trajectory[k].node[j].pose) >> :
            j \in DOMAIN proto.trajectory[k].node } :
          k \in DOMAIN proto.trajectory }

\* lines 254-264: the (trajectory_id, submap_index, pose) triples inserted
SubmapPoseEntries(proto) ==
  UNION { { << proto.trajectory[k].trajectory_id,
               proto.trajectory[k].submap[j].submap_index,
               ToRigid3(proto.trajectory[k].submap[j].pose) >> :
            j \in DOMAIN proto.trajectory[k].submap } :
          k \in DOMAIN proto.trajectory }

\* faulty variant: the node table keyed by the position in the summary
NodePoseEntries_SavedIds(proto) ==
  UNION { { << k - 1,
               proto.trajectory[k].node[j].node_index,
               ToRigid3(proto.trajectory[k].node[j].pose) >> :
            j \in DOMAIN proto.trajectory[k].node } :
          k \in DOMAIN proto.trajectory }

\* lines 266-274
NodePoseEntries(proto) ==
  UNION { { << proto.trajectory[k].trajectory_id,
               proto.trajectory[k].node[j].node_index,
               ToRigid3(proto.trajectory[k].node[j].pose) >> :
            j \in DOMAIN proto.trajectory[k].node } :
          k \in DOMAIN proto.trajectory }

\* MapById::Insert of every entry: the table, keyed by (trajectory_id, index)
MapByIdOf(entries) ==
  [ key \in { <<e[1], e[2]>> : e \in entries } |->
      (CHOOSE e \in entries : <<e[1], e[2]>> = key)[3] ]

\* MapById::Insert meets a key twice
InsertsDuplicate(entries) ==
  \E e1, e2 \in entries : e1 # e2 /\ e1[1] = e2[1] /\ e1[2] = e2[2]

\* lines 276-280: SetLandmarkPose for every landmark of the summary, in order
RECURSIVE SetLandmarkPoses(_, _)
SetLandmarkPoses(pg, landmarks) ==
  IF landmarks = << >> THEN pg
  ELSE SetLandmarkPoses(
         SetLandmarkPose(pg, Head(landmarks).landmark_id,
                         ToRigid3(Head(landmarks).global_pose)),
         Tail(landmarks))

LandmarkCalls(landmarks) ==
  [ k \in DOMAIN landmarks |->
      [CallT("SetLandmarkPose", -1) EXCEPT
         !.pose = ToRigid3(landmarks[k].global_pose),
         !.list = << landmarks[k].landmark_id >>] ]

\* lines 247-280: rewrite the constraints, build the pose tables, set landmarks
LoadPrepare ==
  /\ pc = "allocate"
  /\ next_trajectory > Len(pose_graph_proto.trajectory)
  /\ IF \E k \in DOMAIN pose_graph_proto.constraint :
          ~CanRemapConstraint(trajectory_remapping, pose_graph_proto.constraint[k])
     THEN /\ pc' = "failed"
          /\ failure' = "std::out_of_range"
          /\ step_calls' = << >>
          /\ UNCHANGED << pose_graph_, pose_graph_proto, submap_poses, node_poses >>
     ELSE
       LET rewritten ==
             [pose_graph_proto EXCEPT
                !.constraint = [k \in DOMAIN @ |->
                                  RemapConstraint(trajectory_remapping, @[k])]]
       IN
       /\ pose_graph_proto' = rewritten
       /\ IF InsertsDuplicate(SubmapPoseEntries(rewritten))
             \/ InsertsDuplicate(NodePoseEntries(rewritten))
          THEN /\ pc' = "failed"
               /\ failure' = "MapById::Insert"
               /\ step_calls' = << >>
               /\ UNCHANGED << pose_graph_, submap_poses, node_poses >>
          ELSE /\ submap_poses' = MapByIdOf(SubmapPoseEntries(rewritten))
               /\ node_poses' = MapByIdOf(NodePoseEntries(rewritten))
               /\ pose_graph_' = SetLandmarkPoses(pose_graph_, rewritten.landmark_poses)
               /\ step_calls' = LandmarkCalls(rewritten.landmark_poses)
               /\ pc' = "stream"
               /\ UNCHANGED failure
  /\ UNCHANGED << orchestrator, load_frozen_state, deserializer, trajectory_remapping,
                  next_trajectory, reader_eof, first_new, graph_at_begin, created, loads,
                  inputs_used, last_record, save_vars, query_vars, landmark_vars, detection_vars >>

\* the outcome of dispatching one record
Outcome(why, pg, calls) == [failure |-> why, pg |-> pg, calls |-> calls]

\* lines 294-303
DispatchSubmap(pg, remapping, poses, r) ==
  IF r.trajectory_id \notin DOMAIN remapping
  THEN Outcome("std::out_of_range", pg, << >>)
  ELSE LET t == remapping[r.trajectory_id] IN
       IF <<t, r.index>> \notin DOMAIN poses
       THEN Outcome("MapById::at", pg, << >>)
       ELSE IF HasSubmap(pg, t, r.index)
       THEN Outcome("AddSubmapFromProto: DuplicateKey", pg, << >>)
       ELSE Outcome("", AddSubmapFromProto(pg, poses[<<t, r.index>>], t, r.index),
                    << Call("AddSubmapFromProto", t, r.index, -1, -1,
                            poses[<<t, r.index>>], << >>) >>)

\* faulty variant: the node's pose looked up under the saved trajectory id
DispatchNode_SavedKey(pg, remapping, poses, r) ==
  IF r.trajectory_id \notin DOMAIN remapping
  THEN Outcome("std::out_of_range", pg, << >>)
  ELSE LET t == remapping[r.trajectory_id] IN
       IF <<r.trajectory_id, r.index>> \notin DOMAIN poses
       THEN Outcome("MapById::at", pg, << >>)
       ELSE IF HasNode(pg, t, r.index)
       THEN Outcome("AddNodeFromProto: DuplicateKey", pg, << >>)
       ELSE Outcome("", AddNodeFromProto(pg, poses[<<r.trajectory_id, r.index>>],
                                         t, r.index),
                    << Call("AddNodeFromProto", t, r.index, -1, -1,
                            poses[<<r.trajectory_id, r.index>>], << >>) >>)

\* lines 304-312
DispatchNode(pg, remapping, poses, r) ==
  IF r.trajectory_id \notin DOMAIN remapping
  THEN Outcome("std::out_of_range", pg, << >>)
  ELSE LET t == remapping[r.trajectory_id] IN
       IF <<t, r.index>> \notin DOMAIN poses
       THEN Outcome("MapById::at", pg, << >>)
       ELSE IF HasNode(pg, t, r.index)
       THEN Outcome("AddNodeFromProto: DuplicateKey", pg, << >>)
       ELSE Outcome("", AddNodeFromProto(pg, poses[<<t, r.index>>], t, r.index),
                    << Call("AddNodeFromProto", t, r.index, -1, -1,
                            poses[<<t, r.index>>], << >>) >>)

\* faulty variant: the trajectory data set under the saved trajectory id
DispatchTrajectoryData_SavedId(pg, remapping, r) ==
  IF r.trajectory_id \notin DOMAIN remapping
  THEN Outcome("std::out_of_range", pg, << >>)
  ELSE Outcome("", SetTrajectoryDataFromProto(pg, r.trajectory_id),
               << CallT("SetTrajectoryDataFromProto", r.trajectory_id) >>)

\* lines 313-318
DispatchTrajectoryData(pg, remapping, r) ==
  IF r.trajectory_id \notin DOMAIN remapping
  THEN Outcome("std::out_of_range", pg, << >>)
  ELSE Outcome("", SetTrajectoryDataFromProto(pg, remapping[r.trajectory_id]),
               << CallT("SetTrajectoryDataFromProto", remapping[r.trajectory_id]) >>)

\* faulty variant: raw records never dropped
DropsRawData_Never(frozen) == FALSE

\* lines 320, 327, 334, 343: if (load_frozen_state) break;
DropsRawData(frozen) == frozen

\* lines 319-348: the four raw sensor cases
DispatchRawData(pg, remapping, frozen, r) ==
  IF DropsRawData(frozen) THEN Outcome("", pg, << >>)
  ELSE IF r.trajectory_id \notin DOMAIN remapping
  THEN Outcome("std::out_of_range", pg, << >>)
  ELSE LET t == remapping[r.trajectory_id] IN
       CASE r.data_case = "kImuData" ->
              Outcome("", AddImuData(pg, t), << CallT("AddImuData", t) >>)
         [] r.data_case = "kOdometryData" ->
              Outcome("", AddOdometryData(pg, t), << CallT("AddOdometryData", t) >>)
         [] r.data_case = "kFixedFramePoseData" ->
              Outcome("", AddFixedFramePoseData(pg, t),
                      << CallT("AddFixedFramePoseData", t) >>)
         [] r.data_case = "kLandmarkData" ->
              Outcome("", AddLandmarkData(pg, t), << CallT("AddLandmarkData", t) >>)

\* faulty variants: a repeated summary record, or a record of unknown type,
\* ends the load
Dispatch_SummaryFails(pg, remapping, s_poses, n_poses, frozen, r) ==
  CASE r.data_case \in {"kPoseGraph", "kAllTrajectoryBuilderOptions"} ->
         Outcome("corrupt stream", pg, << >>)
    [] r.data_case = "kSubmap" -> DispatchSubmap(pg, remapping, s_poses, r)
    [] r.data_case = "kNode" -> DispatchNode(pg, remapping, n_poses, r)
    [] r.data_case = "kTrajectoryData" -> DispatchTrajectoryData(pg, remapping, r)
    [] r.data_case \in {"kImuData", "kOdometryData", "kFixedFramePoseData",
                        "kLandmarkData"} ->
         DispatchRawData(pg, remapping, frozen, r)
    [] OTHER -> Outcome("", pg, << >>)
Dispatch_UnknownFails(pg, remapping, s_poses, n_poses, frozen, r) ==
  CASE r.data_case \in {"kPoseGraph", "kAllTrajectoryBuilderOptions"} ->
         Outcome("", pg, << >>)
    [] r.data_case = "kSubmap" -> DispatchSubmap(pg, remapping, s_poses, r)
    [] r.data_case = "kNode" -> DispatchNode(pg, remapping, n_poses, r)
    [] r.data_case = "kTrajectoryData" -> DispatchTrajectoryData(pg, remapping, r)
    [] r.data_case \in {"kImuData", "kOdometryData", "kFixedFramePoseData",
                        "kLandmarkData"} ->
         DispatchRawData(pg, remapping, frozen, r)
    [] OTHER -> Outcome("unknown message type", pg, << >>)

\* lines 284-352: the switch on proto.data_case()
Dispatch(pg, remapping, s_poses, n_poses, frozen, r) ==
  CASE r.data_case = "kPoseGraph" -> Outcome("", pg, << >>)
    [] r.data_case = "kAllTrajectoryBuilderOptions" -> Outcome("", pg, << >>)
    [] r.data_case = "kSubmap" -> DispatchSubmap(pg, remapping, s_poses, r)
    [] r.data_case = "kNode" -> DispatchNode(pg, remapping, n_poses, r)
    [] r.data_case = "kTrajectoryData" -> DispatchTrajectoryData(pg, remapping, r)
    [] r.data_case \in {"kImuData", "kOdometryData", "kFixedFramePoseData",
                        "kLandmarkData"} ->
         DispatchRawData(pg, remapping, frozen, r)
    [] OTHER -> Outcome("", pg, << >>)

\* lines 283-353, one iteration: ReadNextSerializedData returned record r
ReadRecord(r) ==
  /\ pc = "stream"
  /\ LET out == Dispatch(pose_graph_, trajectory_remapping, submap_poses, node_poses,
                         load_frozen_state, r)
     IN /\ pose_graph_' = out.pg
        /\ step_calls' = out.calls
        /\ failure' = out.failure
        /\ pc' = IF out.failure = "" THEN "stream" ELSE "failed"
  /\ last_record' = r
  /\ UNCHANGED << orchestrator, load_locals, created, loads >>

\* the reader hands over any record
LoadReadRecord(r) ==
  /\ inputs_used < MaxInputs
  /\ inputs_used' = inputs_used + 1
  /\ ReadRecord(r)
  /\ UNCHANGED << save_vars, query_vars, landmark_vars, detection_vars >>

\* lines 358-369: AddNodeToSubmap for every INTRA_SUBMAP constraint, in order
RECURSIVE AddNodesToSubmaps(_, _)
AddNodesToSubmaps(pg, constraints) ==
  IF constraints = << >> THEN pg
  ELSE LET c == Head(constraints) IN
       AddNodesToSubmaps(
         IF c.tag # "INTRA_SUBMAP" THEN pg
         ELSE AddNodeToSubmap(pg, c.node_id.trajectory_id, c.node_id.node_index,
                              c.submap_id.trajectory_id, c.submap_id.submap_index),
         Tail(constraints))

RECURSIVE AddNodeToSubmapCalls(_)
AddNodeToSubmapCalls(constraints) ==
  IF constraints = << >> THEN << >>
  ELSE LET c == Head(constraints) IN
       (IF c.tag # "INTRA_SUBMAP" THEN << >>
        ELSE << Call("AddNodeToSubmap", c.node_id.trajectory_id, c.node_id.node_index,
                     c.submap_id.trajectory_id, c.submap_id.submap_index, -1, << >>) >>)
       \o AddNodeToSubmapCalls(Tail(constraints))

\* faulty variant: the serialized constraints added in frozen mode too
ReplayConstraints_AlwaysSerialized(pg, frozen, constraints) ==
  AddSerializedConstraints(AddNodesToSubmaps(pg, constraints), constraints)

\* faulty variant: the tag of the constraint not looked at
ReplayConstraints_AnyTag(pg, frozen, constraints) ==
  IF frozen
  THEN AddNodesToSubmaps(pg, [k \in DOMAIN constraints |->
                                [constraints[k] EXCEPT !.tag = "INTRA_SUBMAP"]])
  ELSE AddSerializedConstraints(pg, constraints)

\* lines 355-376: the graph after the constraint replay
ReplayConstraints(pg, frozen, constraints) ==
  IF frozen THEN AddNodesToSubmaps(pg, constraints)
  ELSE AddSerializedConstraints(pg, constraints)

ReplayCalls(frozen, constraints) ==
  IF frozen THEN AddNodeToSubmapCalls(constraints)
  ELSE << [CallT("AddSerializedConstraints", -1) EXCEPT !.list = constraints] >>

\* faulty variant: the check left out
EofCheckPasses_Always(eof) == TRUE

\* line 377: CHECK(reader->eof())
EofCheckPasses(eof) == eof

\* lines 283, 355-377: ReadNextSerializedData returned false; the reader is
\* at the end of the stream (eof) or stopped short of it
LoadFinish(eof) ==
  /\ pc = "stream"
  /\ pose_graph_' = ReplayConstraints(pose_graph_, load_frozen_state,
                                      pose_graph_proto.constraint)
  /\ step_calls' = ReplayCalls(load_frozen_state, pose_graph_proto.constraint)
  /\ reader_eof' = eof
  /\ pc' = IF EofCheckPasses(eof) THEN "returned" ELSE "failed"
  /\ failure' = IF EofCheckPasses(eof) THEN "" ELSE "CHECK(reader->eof())"
  /\ last_record' = NoRecord
  /\ UNCHANGED << orchestrator, load_frozen_state, deserializer, pose_graph_proto,
                  trajectory_remapping, submap_poses, node_poses, next_trajectory,
                  first_new, graph_at_begin, created, loads, inputs_used, save_vars, query_vars, landmark_vars, detection_vars >>

(***************************************************************************)
(* Live sensor context reaching the pose graph for an existing trajectory. *)
(***************************************************************************)
RawDataKinds == {"kImuData", "kOdometryData", "kFixedFramePoseData", "kLandmarkData"}

LiveRawData(kind, t) ==
  /\ Idle
  /\ inputs_used < MaxInputs
  /\ t \in 0..(Len(trajectory_builders_) - 1)
  /\ pc' = "idle"
  /\ pose_graph_' =
       CASE kind = "kImuData" -> AddImuData(pose_graph_, t)
         [] kind = "kOdometryData" -> AddOdometryData(pose_graph_, t)
         [] kind = "kFixedFramePoseData" -> AddFixedFramePoseData(pose_graph_, t)
         [] kind = "kLandmarkData" -> AddLandmarkData(pose_graph_, t)
  /\ inputs_used' = inputs_used + 1
  /\ last_record' = [data_case |-> kind, trajectory_id |-> t, index |-> -1]
  /\ step_calls' = << >>
  /\ LoadLocalsGone
  /\ UNCHANGED << orchestrator, failure, created, loads, save_vars, query_vars, landmark_vars, detection_vars >>

Next ==
  \/ \E o \in OptionsUniverse : AddTrajectoryBuilder(o)
  \/ \E o \in OptionsUniverse : AddTrajectoryForDeserializationCall(o)
  \/ \E frozen \in BOOLEAN, saved \in SavedStates : LoadStateBegin(frozen, saved)
  \/ LoadAllocateTrajectory
  \/ LoadPrepare
  \/ \E r \in StreamRecords : LoadReadRecord(r)
  \/ \E eof \in BOOLEAN : LoadFinish(eof)
  \/ \E kind \in RawDataKinds, t \in 0..(MaxTrajectories - 1) : LiveRawData(kind, t)

Spec == Init /\ [][Next]_vars

(***************************************************************************)
(* Save and load again: SerializeState on a live orchestrator, then        *)
(* LoadState of what was written into a fresh orchestrator.                *)
(***************************************************************************)
\* caps on the submaps and nodes one live trajectory holds
MaxLiveSubmaps == 2
MaxLiveNodes == 3
\* cap on the number of live trajectories of the orchestrator that saves
MaxLiveTrajectories == 2

\* global poses of a live graph
LiveSubmapPose(t, i) == 50 + 3 * t + i
LiveNodePose(t, i) == 70 + 4 * t + i

\* the constraints live operation builds, in the order it adds them
LiveConstraints ==
  << MakeConstraint(0, 0, 0, 0, "INTRA_SUBMAP"),
     MakeConstraint(0, 1, 0, 0, "INTRA_SUBMAP"),
     MakeConstraint(0, 2, 0, 1, "INTRA_SUBMAP"),
     MakeConstraint(1, 0, 1, 0, "INTRA_SUBMAP"),
     MakeConstraint(1, 1, 0, 0, "INTER_SUBMAP") >>

LiveLandmarks == { << >>, ("A" :> 91), ("A" :> 91) @@ ("B" :> 92) }

\* the pose graph of a live orchestrator with submaps[t] submaps and
\* nodes[t] nodes in trajectory t, the first k constraints between them,
\* and the landmarks lm
LiveGraph(submaps, nodes, k, lm) ==
  LET submap_keys == { key \in (0..(Len(submaps) - 1)) \X (0..(MaxLiveSubmaps - 1)) :
                         key[2] < submaps[key[1] + 1] }
      node_keys == { key \in (0..(Len(nodes) - 1)) \X (0..(MaxLiveNodes - 1)) :
                       key[2] < nodes[key[1] + 1] }
      present(c) == /\ <<c.node_id.trajectory_id, c.node_id.node_index>> \in node_keys
                    /\ <<c.submap_id.trajectory_id, c.submap_id.submap_index>>
                         \in submap_keys
      all == SelectSeq(LiveConstraints, present)
      cs == [j \in 1..(IF k < Len(all) THEN k ELSE Len(all)) |-> all[j]]
  IN [ PoseGraphInit EXCEPT
         !.submap_data = [key \in submap_keys |-> LiveSubmapPose(key[1], key[2])],
         !.trajectory_nodes = [key \in node_keys |-> LiveNodePose(key[1], key[2])],
         !.constraints = cs,
         !.node_to_submap =
            { << <<cs[j].node_id.trajectory_id, cs[j].node_id.node_index>>,
                 <<cs[j].submap_id.trajectory_id, cs[j].submap_id.submap_index>> >> :
              j \in { h \in DOMAIN cs : cs[h].tag = "INTRA_SUBMAP" } },
         !.landmark_poses = lm,
         !.trajectory_data = { key[1] : key \in node_keys },
         !.imu_data = [t \in { key[1] : key \in node_keys } |-> 1],
         !.optimizations_scheduled = Len(cs) ]

\* the live orchestrators that save: n trajectories added by
\* AddTrajectoryBuilder, and a graph live operation has filled
InitLive ==
  \E n \in 1..MaxLiveTrajectories :
  \E submaps \in [1..n -> 0..MaxLiveSubmaps], nodes \in [1..n -> 0..MaxLiveNodes] :
  \E k \in 0..Len(LiveConstraints), lm \in LiveLandmarks :
    /\ k <= Len(LiveGraph(submaps, nodes, Len(LiveConstraints), lm).constraints)
    /\ trajectory_builders_ = [t \in 1..n |-> "CollatedTrajectoryBuilder"]
    /\ all_trajectory_builder_options_ = [t \in 1..n |-> OptionsA]
    /\ sensor_collator_ = 0..(n - 1)
    /\ pose_graph_ = LiveGraph(submaps, nodes, k, lm)
    /\ created = [t \in 1..n |-> [id |-> t - 1, by |-> "AddTrajectoryBuilder",
                                  load |-> -1, saved |-> -1, frozen |-> FALSE]]
    /\ pc = "idle"
    /\ failure = ""
    /\ load_frozen_state = FALSE
    /\ deserializer = NoSavedState
    /\ pose_graph_proto = EmptySummary
    /\ trajectory_remapping = << >>
    /\ submap_poses = << >>
    /\ node_poses = << >>
    /\ next_trajectory = 1
    /\ reader_eof = FALSE
    /\ first_new = 0
    /\ graph_at_begin = PoseGraphInit
    /\ writer = NoWriter
    /\ graph_at_save = PoseGraphInit
    /\ loads = 0
    /\ inputs_used = 0
    /\ last_record = NoRecord
    /\ step_calls = << >>
    /\ response = NoResponse
    /\ returned = ""
    /\ collator_finished = {}
    /\ landmark_poses_file = NoLandmarkFile
    /\ NoDetection

\* the keys of one trajectory, in ascending index order
RECURSIVE IndicesOf(_, _, _)
IndicesOf(keys, t, i) ==
  IF \A key \in keys : key[1] # t \/ key[2] < i THEN << >>
  ELSE (IF <<t, i>> \in keys THEN << i >> ELSE << >>) \o IndicesOf(keys, t, i + 1)

\* n copies of a record
Repeat(r, n) == [k \in 1..n |-> r]

\* a sequence of sequences joined
RECURSIVE Flatten(_)
Flatten(ss) == IF ss = << >> THEN << >> ELSE Head(ss) \o Flatten(Tail(ss))

\* the landmark ids a graph can hold, in the order the writer lists them
LandmarkIds == << "A", "B" >>

\* io::WritePbStream: the pose-graph summary (every trajectory of the
\* orchestrator under its live id, with the global poses of its submaps and
\* nodes, the constraints, the landmark poses), the options of every
\* trajectory, then one record per submap, node, trajectory data and raw
\* sensor record
WritePbStream(pg, all_options) ==
  LET n == Len(all_options)
      submaps_of(t) == IndicesOf(DOMAIN pg.submap_data, t, 0)
      nodes_of(t) == IndicesOf(DOMAIN pg.trajectory_nodes, t, 0)
      trajectory(t) ==
        [ trajectory_id |-> t,
          submap |-> [j \in DOMAIN submaps_of(t) |->
                        [submap_index |-> submaps_of(t)[j],
                         pose |-> PoseProto(pg.submap_data[<<t, submaps_of(t)[j]>>])]],
          node   |-> [j \in DOMAIN nodes_of(t) |->
                        [node_index |-> nodes_of(t)[j],
                         pose |-> PoseProto(pg.trajectory_nodes[<<t, nodes_of(t)[j]>>])]] ]
      held(id) == id \in DOMAIN pg.landmark_poses
      landmarks == [j \in DOMAIN SelectSeq(LandmarkIds, held) |->
                      [landmark_id |-> SelectSeq(LandmarkIds, held)[j],
                       global_pose |->
                         PoseProto(pg.landmark_poses[SelectSeq(LandmarkIds, held)[j]])]]
      indexed(d, t, indices) ==
        [j \in DOMAIN indices |->
           [data_case |-> d, trajectory_id |-> t, index |-> indices[j]]]
      plain(d, t, count) ==
        Repeat([data_case |-> d, trajectory_id |-> t, index |-> -1], count)
      per_trajectory(f(_)) == Flatten([t \in 1..n |-> f(t - 1)])
      submap_records(t) == indexed("kSubmap", t, submaps_of(t))
      node_records(t) == indexed("kNode", t, nodes_of(t))
      data_records(t) ==
        plain("kTrajectoryData", t, IF t \in pg.trajectory_data THEN 1 ELSE 0)
      imu_records(t) == plain("kImuData", t, Kept(pg.imu_data, t))
      odometry_records(t) == plain("kOdometryData", t, Kept(pg.odometry_data, t))
      fixed_records(t) ==
        plain("kFixedFramePoseData", t, Kept(pg.fixed_frame_pose_data, t))
      landmark_records(t) == plain("kLandmarkData", t, Kept(pg.landmark_data, t))
  IN [ written |-> TRUE,
       state |->
         [ pose_graph |->
             [ trajectory     |-> [t \in 1..n |-> trajectory(t - 1)],
               constraint     |-> pg.constraints,
               landmark_poses |-> landmarks ],
           all_trajectory_builder_options |-> all_options ],
       records |->
         per_trajectory(submap_records) \o per_trajectory(node_records)
         \o per_trajectory(data_records) \o per_trajectory(imu_records)
         \o per_trajectory(odometry_records) \o per_trajectory(fixed_records)
         \o per_trajectory(landmark_records) ]

\* MapBuilder::SerializeState
SerializeState ==
  /\ pc = "idle"
  /\ ~writer.written
  /\ writer' = WritePbStream(pose_graph_, all_trajectory_builder_options_)
  /\ graph_at_save' = pose_graph_
  /\ UNCHANGED << orchestrator, pose_graph_, pc, failure, load_locals, created, loads,
                  inputs_used, last_record, step_calls, query_vars, landmark_vars, detection_vars >>

\* a fresh orchestrator is constructed and LoadState begins on a reader
\* over what was written (lines 223-230)
LoadStateFresh(frozen) ==
  /\ pc = "idle"
  /\ writer.written
  /\ trajectory_builders_' = << >>
  /\ all_trajectory_builder_options_' = << >>
  /\ sensor_collator_' = {}
  /\ pose_graph_' = PoseGraphInit
  /\ created' = << >>
  /\ loads' = 1
  /\ pc' = "allocate"
  /\ load_frozen_state' = frozen
  /\ deserializer' = writer.state
  /\ pose_graph_proto' = writer.state.pose_graph
  /\ trajectory_remapping' = << >>
  /\ submap_poses' = << >>
  /\ node_poses' = << >>
  /\ next_trajectory' = 1
  /\ reader_eof' = FALSE
  /\ first_new' = 0
  /\ graph_at_begin' = PoseGraphInit
  /\ last_record' = NoRecord
  /\ step_calls' = << >>
  /\ UNCHANGED << failure, inputs_used, save_vars, query_vars, landmark_vars, detection_vars >>

\* the reader hands over the next record that was written
LoadReadWritten ==
  /\ writer.written
  /\ writer.records # << >>
  /\ ReadRecord(Head(writer.records))
  /\ writer' = [writer EXCEPT !.records = Tail(@)]
  /\ UNCHANGED << graph_at_save, inputs_used, query_vars, landmark_vars, detection_vars >>

\* the reader has handed over every record and is at the end of the stream
LoadFinishWritten ==
  /\ writer.written
  /\ writer.records = << >>
  /\ LoadFinish(TRUE)

NextRoundTrip ==
  \/ SerializeState
  \/ \E frozen \in BOOLEAN : LoadStateFresh(frozen)
  \/ LoadAllocateTrajectory
  \/ LoadPrepare
  \/ LoadReadWritten
  \/ LoadFinishWritten

SpecRoundTrip == InitLive /\ [][NextRoundTrip]_vars

(***************************************************************************)
(* Queries and FinishTrajectory on a live orchestrator whose trimmers run. *)
(***************************************************************************)
\* cap on the operations the caller performs
MaxQueries == 2

\* the pose LocalSubmapToProto hands to ToResponseProto: the identity at
\* the origin
IdentityPose == 0

\* Submap::ToResponseProto: the response filled from the submap
ToResponseProto(submap, pose) == [submap |-> submap, pose |-> pose]

\* the sensor collator's FinishTrajectory
CollatorFinishTrajectory(finished, t) == finished \cup {t}

\* the live orchestrators that are queried: n trajectories added by
\* AddTrajectoryBuilder, each with some submaps and the nodes inserted into
\* them, and a current local submap or none
InitQuery ==
  \E n \in 1..MaxLiveTrajectories :
  \E submaps \in [1..n -> 0..MaxLiveSubmaps] :
  LET nodes == [t \in 1..n |-> IF submaps[t] = 0 THEN 0 ELSE MaxLiveNodes]
      graph == LiveGraph(submaps, nodes, Len(LiveConstraints), << >>)
  IN \E local \in {NullSubmap} \cup DOMAIN graph.submap_data :
    /\ trajectory_builders_ = [t \in 1..n |-> "CollatedTrajectoryBuilder"]
    /\ all_trajectory_builder_options_ = [t \in 1..n |-> OptionsA]
    /\ sensor_collator_ = 0..(n - 1)
    /\ pose_graph_ = [graph EXCEPT !.local_current_submap = local]
    /\ created = [t \in 1..n |-> [id |-> t - 1, by |-> "AddTrajectoryBuilder",
                                  load |-> -1, saved |-> -1, frozen |-> FALSE]]
    /\ pc = "idle"
    /\ failure = ""
    /\ load_frozen_state = FALSE
    /\ deserializer = NoSavedState
    /\ pose_graph_proto = EmptySummary
    /\ trajectory_remapping = << >>
    /\ submap_poses = << >>
    /\ node_poses = << >>
    /\ next_trajectory = 1
    /\ reader_eof = FALSE
    /\ first_new = 0
    /\ graph_at_begin = PoseGraphInit
    /\ writer = NoWriter
    /\ graph_at_save = PoseGraphInit
    /\ loads = 0
    /\ inputs_used = 0
    /\ last_record = NoRecord
    /\ step_calls = << >>
    /\ response = NoResponse
    /\ returned = ""
    /\ collator_finished = {}
    /\ landmark_poses_file = NoLandmarkFile
    /\ NoDetection

\* what a query or FinishTrajectory leaves alone in any case
QueryLeaves ==
  UNCHANGED << orchestrator, pc, failure, load_locals, created, loads, save_vars,
               landmark_vars, detection_vars >>

\* faulty variant: an id equal to the number of trajectories passes
TrajectoryIdOutOfRange_OffByOne(trajectory_id, num_trajectory_builders) ==
  trajectory_id < 0 \/ trajectory_id > num_trajectory_builders

\* lines 199-200: the range check of SubmapToProto
TrajectoryIdOutOfRange(trajectory_id, num_trajectory_builders) ==
  trajectory_id < 0 \/ trajectory_id >= num_trajectory_builders

\* faulty variant: a null submap taken for a submap
IsNullptr_Never(submap) == FALSE

\* lines 188 and 207: submap_data.submap == nullptr
IsNullptr(submap) == submap = NullSubmap

\* MapBuilder::SubmapToProto (lines 197-215)
SubmapToProto(t, i) ==
  /\ pc = "idle"
  /\ inputs_used < MaxQueries
  /\ LET out_of_range == TrajectoryIdOutOfRange(t, Len(trajectory_builders_))
         submap_data == GetSubmapData(pose_graph_, t, i)
     IN /\ returned' =
             IF out_of_range
             THEN "Requested submap from trajectory, but there are only so many trajectories."
             ELSE IF IsNullptr(submap_data.submap)
             THEN "Requested submap, but it does not exist: maybe it has been trimmed."
             ELSE ""
        /\ response' =
             IF ~out_of_range /\ ~IsNullptr(submap_data.submap)
             THEN ToResponseProto(submap_data.submap, submap_data.pose)
             ELSE response
        /\ step_calls' =
             IF out_of_range THEN << >>
             ELSE << Call("GetSubmapData", t, i, -1, -1, -1, << >>) >>
  /\ last_record' = [data_case |-> "SubmapToProto", trajectory_id |-> t, index |-> i]
  /\ inputs_used' = inputs_used + 1
  /\ QueryLeaves
  /\ UNCHANGED << pose_graph_, collator_finished >>

\* MapBuilder::LocalSubmapToProto (lines 186-195)
LocalSubmapToProto ==
  /\ pc = "idle"
  /\ inputs_used < MaxQueries
  /\ LET submap_data == GetLocalCurrentSubmap(pose_graph_)
     IN /\ returned' =
             IF IsNullptr(submap_data.submap)
             THEN "Requested LocalSubmap  but it does not exist: maybe it has not been setted."
             ELSE ""
        /\ response' =
             IF IsNullptr(submap_data.submap) THEN response
             ELSE ToResponseProto(submap_data.submap, IdentityPose)
  /\ step_calls' = << CallT("GetLocalCurrentSubmap", -1) >>
  /\ last_record' = [data_case |-> "LocalSubmapToProto", trajectory_id |-> -1,
                     index |-> -1]
  /\ inputs_used' = inputs_used + 1
  /\ QueryLeaves
  /\ UNCHANGED << pose_graph_, collator_finished >>

\* faulty variant: the pose graph told first
FinishTrajectoryCalls_GraphFirst(trajectory_id) ==
  << CallT("pose_graph_->FinishTrajectory", trajectory_id),
     CallT("sensor_collator_->FinishTrajectory", trajectory_id) >>

\* lines 182-183: the calls FinishTrajectory makes, in order
FinishTrajectoryCalls(trajectory_id) ==
  << CallT("sensor_collator_->FinishTrajectory", trajectory_id),
     CallT("pose_graph_->FinishTrajectory", trajectory_id) >>

\* the collator and the graph after the calls were made one by one
RECURSIVE ApplyFinishCalls(_, _, _)
ApplyFinishCalls(calls, finished, pg) ==
  IF calls = << >> THEN [collator_finished |-> finished, pose_graph |-> pg]
  ELSE IF Head(calls).op = "sensor_collator_->FinishTrajectory"
  THEN ApplyFinishCalls(Tail(calls),
                        CollatorFinishTrajectory(finished, Head(calls).trajectory_id), pg)
  ELSE ApplyFinishCalls(Tail(calls), finished,
                        PoseGraphFinishTrajectory(pg, Head(calls).trajectory_id))

\* MapBuilder::FinishTrajectory (lines 181-184)
FinishTrajectory(trajectory_id) ==
  /\ pc = "idle"
  /\ inputs_used < MaxQueries
  /\ trajectory_id \in 0..(Len(trajectory_builders_) - 1)
  /\ LET after == ApplyFinishCalls(FinishTrajectoryCalls(trajectory_id),
                                   collator_finished, pose_graph_)
     IN /\ collator_finished' = after.collator_finished
        /\ pose_graph_' = after.pose_graph
  /\ step_calls' = FinishTrajectoryCalls(trajectory_id)
  /\ last_record' = [data_case |-> "FinishTrajectory", trajectory_id |-> trajectory_id,
                     index |-> -1]
  /\ inputs_used' = inputs_used + 1
  /\ QueryLeaves
  /\ UNCHANGED << response, returned >>

\* a registered trimmer runs and removes a submap that is not the current one
TrimmerRuns(t, i) ==
  /\ pc = "idle"
  /\ inputs_used < MaxQueries
  /\ HasSubmap(pose_graph_, t, i)
  /\ pose_graph_.local_current_submap # <<t, i>>
  /\ pose_graph_' = TrimSubmap(pose_graph_, t, i)
  /\ step_calls' = << >>
  /\ last_record' = [data_case |-> "TrimSubmap", trajectory_id |-> t, index |-> i]
  /\ inputs_used' = inputs_used + 1
  /\ QueryLeaves
  /\ UNCHANGED query_vars

NextQuery ==
  \/ \E t \in (-1)..MaxLiveTrajectories, i \in 0..MaxLiveSubmaps : SubmapToProto(t, i)
  \/ LocalSubmapToProto
  \/ \E t \in 0..(MaxLiveTrajectories - 1) : FinishTrajectory(t)
  \/ \E t \in 0..(MaxLiveTrajectories - 1), i \in 0..(MaxLiveSubmaps - 1) :
       TrimmerRuns(t, i)

SpecQuery == InitQuery /\ [][NextQuery]_vars

(***************************************************************************)
(* MapBuilder::LoadStateLandmark (lines 380-556): LoadState's code, line   *)
(* for line, with the block of lines 441-459 between the landmarks of the  *)
(* summary and the stream loop. The allocation loop (386-401), the stream  *)
(* loop (461-531) and the replay (533-555) are the steps of LoadState.     *)
(***************************************************************************)
\* the lines of a landmark file that are looked at
MaxFileLines == 2

\* std::ifstream on a name that cannot be opened: getline fails at once
UnopenableFile == [given |-> TRUE, opens |-> FALSE, lines |-> << >>]

\* a file that opens and has these lines
LandmarkFile(lines) == [given |-> TRUE, opens |-> TRUE, lines |-> lines]

\* a line "index v0 ... v6" (the seven numbers kept as one pose value), and
\* an empty line, from which neither index nor value[] is extracted
FileLine(index, pose) == [well_formed |-> TRUE, index |-> index, pose |-> pose]
BlankLine == [well_formed |-> FALSE, index |-> 0, pose |-> 0]
FileLines == { FileLine(1, 41), FileLine(1, 43), BlankLine }

LandmarkFiles ==
  {UnopenableFile} \cup { LandmarkFile(lines) : lines \in SeqUpTo(FileLines, MaxFileLines) }

\* what the uninitialized `int index` and `double value[7]` of lines 446-447
\* can hold when nothing was extracted into them
IndeterminateIndices == {1, 7}
IndeterminatePoses == {0, 49}

\* lines 448-456: the index and the pose one line yields
ParsedLine(line) ==
  IF line.well_formed
  THEN { [index |-> line.index, pose |-> line.pose] }
  ELSE { [index |-> n, pose |-> p] : n \in IndeterminateIndices, p \in IndeterminatePoses }

\* faulty variant: a file that cannot be opened yields a default landmark
ReadLandmarkFile_DefaultEntry(file) ==
  IF ~file.opens
  THEN { << [index |-> 0, pose |-> 0] >> }
  ELSE { parsed \in [DOMAIN file.lines ->
                       UNION { ParsedLine(file.lines[k]) : k \in DOMAIN file.lines }] :
           \A k \in DOMAIN file.lines : parsed[k] \in ParsedLine(file.lines[k]) }

\* lines 443-445: while (read_landmark.getline(buffer, 1024)): the entries
\* read, one per line, in the order of the file
ReadLandmarkFile(file) ==
  IF ~file.opens
  THEN { << >> }
  ELSE { parsed \in [DOMAIN file.lines ->
                       UNION { ParsedLine(file.lines[k]) : k \in DOMAIN file.lines }] :
           \A k \in DOMAIN file.lines : parsed[k] \in ParsedLine(file.lines[k]) }

\* std::to_string(int)
Digit(d) ==
  CASE d = 0 -> "0" [] d = 1 -> "1" [] d = 2 -> "2" [] d = 3 -> "3" [] d = 4 -> "4"
    [] d = 5 -> "5" [] d = 6 -> "6" [] d = 7 -> "7" [] d = 8 -> "8" [] d = 9 -> "9"
RECURSIVE to_string(_)
to_string(n) ==
  IF n < 0 THEN "-" \o to_string(-n)
  ELSE IF n < 10 THEN Digit(n)
  ELSE to_string(n \div 10) \o Digit(n % 10)

\* line 457: pose_graph_->SetLandmarkPose(std::to_string(index), trans), for
\* every entry in order
RECURSIVE SetFileLandmarks(_, _)
SetFileLandmarks(pg, entries) ==
  IF entries = << >> THEN pg
  ELSE SetFileLandmarks(SetLandmarkPose(pg, to_string(Head(entries).index),
                                        Head(entries).pose),
                        Tail(entries))

\* faulty variant: the file read before the landmarks of the summary
SetAllLandmarks_FileFirst(pg, landmarks, entries) == SetLandmarkPoses(SetFileLandmarks(pg, entries), landmarks)

\* lines 436-459: the landmarks of the summary, then those of the file
SetAllLandmarks(pg, landmarks, entries) == SetFileLandmarks(SetLandmarkPoses(pg, landmarks), entries)

LandmarkFileCalls(entries) ==
  [ k \in DOMAIN entries |->
      [CallT("SetLandmarkPose", -1) EXCEPT
         !.pose = entries[k].pose,
         !.list = << to_string(entries[k].index) >>] ]

\* a summary whose landmark "1" has the id a file entry gets
NumberedLandmarks ==
  << [landmark_id |-> "1", global_pose |-> PoseProto(34)],
     [landmark_id |-> "B", global_pose |-> PoseProto(32)] >>

\* the saved states loaded with a landmark file
SavedStatesLandmark ==
  { SavedState(ids, cs, ls, FullOptions) :
      ids \in { <<0>>, <<1, 0>> },
      cs \in { << >>, << MakeConstraint(0, 0, 0, 0, "INTRA_SUBMAP") >> },
      ls \in { << >>, SavedLandmarks, NumberedLandmarks } }

\* lines 383-390: the deserializer has read the summary and the options
LoadStateLandmarkBegin(frozen, saved, file) ==
  /\ Idle
  /\ Len(trajectory_builders_) + Len(saved.pose_graph.trajectory) <= MaxTrajectories
  /\ loads < MaxLoads
  /\ inputs_used + SavedStateSize(saved) + Len(file.lines) <= MaxInputs
  /\ loads' = loads + 1
  /\ inputs_used' = inputs_used + SavedStateSize(saved) + Len(file.lines)
  /\ pc' = "allocate"
  /\ load_frozen_state' = frozen
  /\ landmark_poses_file' = file
  /\ deserializer' = saved
  /\ pose_graph_proto' = saved.pose_graph
  /\ trajectory_remapping' = << >>
  /\ submap_poses' = << >>
  /\ node_poses' = << >>
  /\ next_trajectory' = 1
  /\ reader_eof' = FALSE
  /\ first_new' = Len(trajectory_builders_)
  /\ graph_at_begin' = pose_graph_
  /\ last_record' = NoRecord
  /\ step_calls' = << >>
  /\ UNCHANGED << orchestrator, pose_graph_, failure, created, save_vars, query_vars,
                  detection_vars >>

\* lines 407-459: rewrite the constraints, build the pose tables, set the
\* landmarks of the summary, then those of the file
LoadPrepareLandmark ==
  /\ pc = "allocate"
  /\ next_trajectory > Len(pose_graph_proto.trajectory)
  /\ IF \E k \in DOMAIN pose_graph_proto.constraint :
          ~CanRemapConstraint(trajectory_remapping, pose_graph_proto.constraint[k])
     THEN /\ pc' = "failed"
          /\ failure' = "std::out_of_range"
          /\ step_calls' = << >>
          /\ UNCHANGED << pose_graph_, pose_graph_proto, submap_poses, node_poses >>
     ELSE
       LET rewritten ==
             [pose_graph_proto EXCEPT
                !.constraint = [k \in DOMAIN @ |->
                                  RemapConstraint(trajectory_remapping, @[k])]]
       IN
       /\ pose_graph_proto' = rewritten
       /\ IF InsertsDuplicate(SubmapPoseEntries(rewritten))
             \/ InsertsDuplicate(NodePoseEntries(rewritten))
          THEN /\ pc' = "failed"
               /\ failure' = "MapById::Insert"
               /\ step_calls' = << >>
               /\ UNCHANGED << pose_graph_, submap_poses, node_poses >>
          ELSE /\ submap_poses' = MapByIdOf(SubmapPoseEntries(rewritten))
               /\ node_poses' = MapByIdOf(NodePoseEntries(rewritten))
               /\ \E entries \in ReadLandmarkFile(landmark_poses_file) :
                    /\ pose_graph_' =
                         SetAllLandmarks(pose_graph_, rewritten.landmark_poses, entries)
                    /\ step_calls' =
                         LandmarkCalls(rewritten.landmark_poses)
                           \o LandmarkFileCalls(entries)
               /\ pc' = "stream"
               /\ UNCHANGED failure
  /\ UNCHANGED << orchestrator, load_frozen_state, deserializer, trajectory_remapping,
                  next_trajectory, reader_eof, first_new, graph_at_begin, created, loads,
                  inputs_used, last_record, save_vars, query_vars, landmark_vars,
                  detection_vars >>

\* the records streamed after the summary
StreamRecordsLandmark ==
  { [data_case |-> "kPoseGraph", trajectory_id |-> -1, index |-> -1],
    [data_case |-> "kSubmap", trajectory_id |-> 0, index |-> 0],
    [data_case |-> "kNode", trajectory_id |-> 0, index |-> 0],
    [data_case |-> "kLandmarkData", trajectory_id |-> 0, index |-> -1] }

NextLandmark ==
  \/ \E o \in {OptionsA} : AddTrajectoryBuilder(o)
  \/ \E frozen \in BOOLEAN, saved \in SavedStatesLandmark, file \in LandmarkFiles :
       LoadStateLandmarkBegin(frozen, saved, file)
  \/ LoadAllocateTrajectory
  \/ LoadPrepareLandmark
  \/ \E r \in StreamRecordsLandmark : LoadReadRecord(r)
  \/ \E eof \in BOOLEAN : LoadFinish(eof)

SpecLandmark == Init /\ [][NextLandmark]_vars

(***************************************************************************)
(* ObstableDetection (cmd_control.cpp, lines 55-151): a node of its own.   *)
(* ros::spin() (line 162) runs the two laser callbacks one at a time, each *)
(* to its end. Lengths are in tenths of a metre.                           *)
(***************************************************************************)
\* callbacks run, and points of one cloud
MaxCallbacks == 2
MaxPoints == 3

\* float safety_distance = 0.8; int safety_tolerance = 1;
safety_distance == 8
safety_tolerance == 1

\* the points a cloud is made of: at distance 5, 7, 8 and beyond
CloudPoints ==
  { [x |-> 3, y |-> 4], [x |-> 0, y |-> -7], [x |-> 8, y |-> 0], [x |-> -6, y |-> 6] }

\* the clouds a callback gets: cloud_out of projectLaser (line 106), or the
\* cloud pcl::fromROSMsg fills (line 130)
Clouds == SeqUpTo(CloudPoints, MaxPoints)

\* faulty variant: a point at the safety distance counts as closer
IsCloser_OrEqual(point) == point.x * point.x + point.y * point.y <= safety_distance * safety_distance

\* lines 111, 135: hypot(x, y) < safety_distance, on the squares
IsCloser(point) == point.x * point.x + point.y * point.y < safety_distance * safety_distance

\* lines 108-115, 132-139: count the points closer than the safety distance
RECURSIVE CountCloser(_)
CountCloser(points) ==
  IF points = << >> THEN 0
  ELSE (IF IsCloser(Head(points)) THEN 1 ELSE 0) + CountCloser(Tail(points))

\* faulty variant: the tolerance itself already stops
ExceedsTolerance_OrEqual(count) == count >= safety_tolerance

\* lines 116, 140: if (count > safety_tolerance)
ExceedsTolerance(count) == count > safety_tolerance

\* the object after its constructor (lines 58-66, 78-83): hasObstablePoints
\* has no initializer
InitObstacle ==
  /\ trajectory_builders_ = << >>
  /\ all_trajectory_builder_options_ = << >>
  /\ sensor_collator_ = {}
  /\ pose_graph_ = PoseGraphInit
  /\ pc = "idle"
  /\ failure = ""
  /\ load_frozen_state = FALSE
  /\ deserializer = NoSavedState
  /\ pose_graph_proto = EmptySummary
  /\ trajectory_remapping = << >>
  /\ submap_poses = << >>
  /\ node_poses = << >>
  /\ next_trajectory = 1
  /\ reader_eof = FALSE
  /\ created = << >>
  /\ first_new = 0
  /\ graph_at_begin = PoseGraphInit
  /\ writer = NoWriter
  /\ graph_at_save = PoseGraphInit
  /\ loads = 0
  /\ inputs_used = 0
  /\ last_record = NoRecord
  /\ step_calls = << >>
  /\ response = NoResponse
  /\ returned = ""
  /\ collator_finished = {}
  /\ landmark_poses_file = NoLandmarkFile
  /\ hasObstablePoints \in BOOLEAN
  /\ obstableMsg = NoObstableMsg
  /\ published = << >>
  /\ last_cloud = NoCloud
  /\ callbacks = 0

\* what a laser callback leaves alone
DetectionLeaves ==
  UNCHANGED << orchestrator, pose_graph_, pc, failure, load_locals, created, loads,
               inputs_used, last_record, step_calls, save_vars, query_vars,
               landmark_vars >>

\* lines 88-125: ObstableDetection::rplidarSensor_Callback, on the cloud
\* projectLaser made of the scan
rplidarSensor_Callback(points) ==
  /\ callbacks < MaxCallbacks
  /\ callbacks' = callbacks + 1
  /\ last_cloud' = [sensor |-> "rplidar", points |-> points]
  /\ IF ExceedsTolerance(CountCloser(points))
     THEN /\ obstableMsg' = [obstableMsg EXCEPT !.string_array[1] = "stop"]
          /\ published' = Append(published, obstableMsg')
          /\ hasObstablePoints' = TRUE
     ELSE /\ hasObstablePoints' = FALSE
          /\ UNCHANGED << obstableMsg, published >>
  /\ DetectionLeaves

\* lines 127-148: ObstableDetection::velodyneSensor_Callback, on the cloud
\* converted from the message
velodyneSensor_Callback(points) ==
  /\ callbacks < MaxCallbacks
  /\ callbacks' = callbacks + 1
  /\ last_cloud' = [sensor |-> "velodyne", points |-> points]
  /\ IF ExceedsTolerance(CountCloser(points))
     THEN /\ obstableMsg' = [obstableMsg EXCEPT !.string_array[1] = "stop"]
          /\ published' = Append(published, obstableMsg')
          /\ hasObstablePoints' = TRUE
     ELSE /\ hasObstablePoints' = FALSE
          /\ UNCHANGED << obstableMsg, published >>
  /\ DetectionLeaves

NextObstacle ==
  \/ \E points \in Clouds : rplidarSensor_Callback(points)
  \/ \E points \in Clouds : velodyneSensor_Callback(points)

SpecObstacle == InitObstacle /\ [][NextObstacle]_vars

(***************************************************************************)
(* Properties of trajectory-id allocation and of LoadState.                *)
(***************************************************************************)
\* the trajectories the running (or just returned) load has allocated
NewTrajectories == first_new .. (Len(trajectory_builders_) - 1)

\* the reader ran out of records and LoadState went through its replay
StreamExhausted ==
  pc = "returned" \/ (pc = "failed" /\ failure = "CHECK(reader->eof())")

\* the last step dispatched the streamed record last_record
JustDispatched == pc \in {"stream", "failed"} /\ last_record # NoRecord

Injective(f) == \A a, b \in DOMAIN f : a # b => f[a] # f[b]

\* C1: trajectory ids are dense from 0: the k-th trajectory created, whether
\* by AddTrajectoryBuilder or by AddTrajectoryForDeserialization (directly
\* or inside LoadState), has id k counting from 0, and no id is handed out
\* twice.
C1_DenseTrajectoryIds ==
  /\ Len(created) = Len(trajectory_builders_)
  /\ \A k \in DOMAIN created : created[k].id = k - 1
  /\ \A j, k \in DOMAIN created : j # k => created[j].id # created[k].id

\* a load, a live trajectory and a second load, three ids handed out
C1_Witness ==
  /\ Len(created) = 3
  /\ created[1].by = "LoadState"
  /\ created[2].by = "AddTrajectoryBuilder"
  /\ created[3].by = "LoadState"

\* C2: the remapping LoadState builds is injective, every new id is an id
\* no trajectory had before the load, every saved trajectory of the summary
\* is mapped once the allocation loop is through, and two loads that both
\* hold saved id 0 give it different ids.
C2_RemappingFresh ==
  /\ Injective(trajectory_remapping)
  /\ \A old \in DOMAIN trajectory_remapping :
       trajectory_remapping[old] \in NewTrajectories
  /\ pc \in {"stream", "returned"} =>
       DOMAIN trajectory_remapping =
         { deserializer.pose_graph.trajectory[k].trajectory_id :
             k \in DOMAIN deserializer.pose_graph.trajectory }
  /\ \A j, k \in DOMAIN created :
       (j # k /\ created[j].by = "LoadState" /\ created[k].by = "LoadState"
        /\ created[j].saved = created[k].saved) => created[j].id # created[k].id

\* the second of two loads that both hold saved id 0 has returned
C2_Witness ==
  /\ pc = "returned"
  /\ 0 \in DOMAIN trajectory_remapping
  /\ \E j, k \in DOMAIN created :
       /\ created[j].by = "LoadState" /\ created[k].by = "LoadState"
       /\ created[j].saved = 0 /\ created[k].saved = 0
       /\ created[j].load # created[k].load

\* C3: once LoadState has rewritten the summary, every constraint has the
\* node and submap trajectory ids the remapping gives for its saved ids, and
\* its node index, submap index and tag are the saved ones; this is the
\* list a non-frozen load hands to the pose graph, also when trajectories
\* existed before the load.
C3_ConstraintsRemapped ==
  pc \in {"stream", "returned"} =>
    /\ Len(pose_graph_proto.constraint) = Len(deserializer.pose_graph.constraint)
    /\ \A k \in DOMAIN pose_graph_proto.constraint :
         LET c == pose_graph_proto.constraint[k]
             o == deserializer.pose_graph.constraint[k]
         IN /\ c.node_id.trajectory_id = trajectory_remapping[o.node_id.trajectory_id]
            /\ c.submap_id.trajectory_id =
                 trajectory_remapping[o.submap_id.trajectory_id]
            /\ c.node_id.node_index = o.node_id.node_index
            /\ c.submap_id.submap_index = o.submap_id.submap_index
            /\ c.tag = o.tag
    /\ (pc = "returned" /\ ~load_frozen_state) =>
         /\ step_calls[1].list = pose_graph_proto.constraint
         /\ pose_graph_.constraints =
              graph_at_begin.constraints \o pose_graph_proto.constraint

\* a non-frozen load with a constraint returned in an orchestrator that
\* held a trajectory before
C3_Witness ==
  /\ pc = "returned"
  /\ ~load_frozen_state
  /\ first_new > 0
  /\ pose_graph_proto.constraint # << >>
  /\ pose_graph_.constraints # << >>

\* the load of what SerializeState wrote into a fresh orchestrator returned
LoadedAgain == writer.written /\ pc = "returned"

\* C4: SerializeState followed by a non-frozen LoadState into a fresh
\* orchestrator does not fail and gives back the saved graph up to the
\* renaming of trajectory ids: as many trajectories, submaps, nodes,
\* constraints and landmarks, every submap and node at the global pose it
\* had when saved, and the saved constraints, endpoint by endpoint, under
\* the remapping.
C4_RoundTrip ==
  /\ writer.written => pc # "failed"
  /\ (LoadedAgain /\ ~load_frozen_state) =>
       /\ Len(trajectory_builders_) = Len(writer.state.all_trajectory_builder_options)
       /\ Injective(trajectory_remapping)
       /\ DOMAIN pose_graph_.submap_data =
            { <<trajectory_remapping[key[1]], key[2]>> :
                key \in DOMAIN graph_at_save.submap_data }
       /\ \A key \in DOMAIN graph_at_save.submap_data :
            pose_graph_.submap_data[<<trajectory_remapping[key[1]], key[2]>>] =
              graph_at_save.submap_data[key]
       /\ DOMAIN pose_graph_.trajectory_nodes =
            { <<trajectory_remapping[key[1]], key[2]>> :
                key \in DOMAIN graph_at_save.trajectory_nodes }
       /\ \A key \in DOMAIN graph_at_save.trajectory_nodes :
            pose_graph_.trajectory_nodes[<<trajectory_remapping[key[1]], key[2]>>] =
              graph_at_save.trajectory_nodes[key]
       /\ Len(pose_graph_.constraints) = Len(graph_at_save.constraints)
       /\ \A k \in DOMAIN graph_at_save.constraints :
            LET c == pose_graph_.constraints[k]
                o == graph_at_save.constraints[k]
            IN /\ c.node_id.trajectory_id = trajectory_remapping[o.node_id.trajectory_id]
               /\ c.submap_id.trajectory_id =
                    trajectory_remapping[o.submap_id.trajectory_id]
               /\ c.node_id.node_index = o.node_id.node_index
               /\ c.submap_id.submap_index = o.submap_id.submap_index
               /\ c.tag = o.tag
       /\ pose_graph_.landmark_poses = graph_at_save.landmark_poses

\* the saved graph of two trajectories, 3 submaps, 5 nodes, 4 INTRA_SUBMAP
\* and 1 INTER_SUBMAP constraint and 1 landmark was loaded again
C4_Witness ==
  /\ LoadedAgain
  /\ ~load_frozen_state
  /\ Len(trajectory_builders_) = 2
  /\ Cardinality(DOMAIN graph_at_save.submap_data) = 3
  /\ Cardinality(DOMAIN graph_at_save.trajectory_nodes) = 5
  /\ Len(graph_at_save.constraints) = 5
  /\ Cardinality(DOMAIN graph_at_save.landmark_poses) = 1
  /\ Cardinality(DOMAIN pose_graph_.submap_data) = 3
  /\ Len(pose_graph_.constraints) = 5

\* C5: in a frozen load every new trajectory is frozen right after it is
\* allocated, before any AddSubmapFromProto, AddNodeFromProto or
\* AddNodeToSubmap for it: the graph never holds a restored submap, node or
\* membership of a trajectory of the load that is not frozen.
C5_FrozenBeforeRestore ==
  (pc # "idle" /\ load_frozen_state) =>
    /\ \A key \in DOMAIN pose_graph_.submap_data \cup DOMAIN pose_graph_.trajectory_nodes :
         key[1] \in NewTrajectories => IsTrajectoryFrozen(pose_graph_, key[1])
    /\ \A m \in pose_graph_.node_to_submap :
         /\ m[1][1] \in NewTrajectories => IsTrajectoryFrozen(pose_graph_, m[1][1])
         /\ m[2][1] \in NewTrajectories => IsTrajectoryFrozen(pose_graph_, m[2][1])
    /\ \A k \in DOMAIN step_calls :
         /\ (step_calls[k].op = "AddTrajectoryForDeserialization" /\ pc # "failed") =>
              /\ k + 1 \in DOMAIN step_calls
              /\ step_calls[k + 1] = CallT("FreezeTrajectory", step_calls[k].trajectory_id)
         /\ step_calls[k].op \in {"AddSubmapFromProto", "AddNodeFromProto",
                                  "AddNodeToSubmap"} =>
              /\ IsTrajectoryFrozen(pose_graph_, step_calls[k].trajectory_id)
              /\ \A j \in DOMAIN step_calls : step_calls[j].op # "FreezeTrajectory"
    /\ pc \in {"stream", "returned"} =>
         \A t \in NewTrajectories : IsTrajectoryFrozen(pose_graph_, t)

\* a frozen load has just restored a submap of one of its trajectories
C5_Witness ==
  /\ pc = "stream"
  /\ load_frozen_state
  /\ step_calls # << >>
  /\ step_calls[1].op = "AddSubmapFromProto"
  /\ step_calls[1].trajectory_id \in NewTrajectories

\* C6: LoadState returns normally only when the reader is at the end of the
\* stream; when the reader stopped short, the load ends in the fatal
\* CHECK(reader->eof()) and not in a partially loaded graph handed back.
C6_ReturnsOnlyAtEof ==
  /\ pc = "returned" => reader_eof
  /\ failure = "CHECK(reader->eof())" => (pc = "failed" /\ ~reader_eof)

\* the reader stopped short after a submap was restored
C6_Witness ==
  /\ pc = "failed"
  /\ failure = "CHECK(reader->eof())"
  /\ ~reader_eof
  /\ DOMAIN pose_graph_.submap_data # {}

\* C7: a trajectory LoadState created has, in every state, an empty builder
\* slot and no adapter attached to the collator.
C7_LoadedTrajectoriesHaveNoBuilder ==
  \A k \in DOMAIN created :
    created[k].by = "LoadState" =>
      /\ trajectory_builders_[created[k].id + 1] = "null"
      /\ created[k].id \notin sensor_collator_

\* a live trajectory was added after a load returned its trajectories
C7_Witness ==
  \E j, k \in DOMAIN created :
    /\ j < k
    /\ created[j].by = "LoadState"
    /\ created[k].by = "AddTrajectoryBuilder"
    /\ created[k].id \in sensor_collator_

IsIntraSubmap(c) == c.tag = "INTRA_SUBMAP"

\* C8: after the stream is exhausted a frozen load calls AddNodeToSubmap
\* once per INTRA_SUBMAP constraint of the summary and never
\* AddSerializedConstraints; a non-frozen load calls AddSerializedConstraints
\* exactly once, with the complete remapped list, and never AddNodeToSubmap
\* itself; no replay happens before the last record was dispatched.
C8_ConstraintReplay ==
  /\ (StreamExhausted /\ load_frozen_state) =>
       LET intra == SelectSeq(pose_graph_proto.constraint, IsIntraSubmap) IN
       /\ Len(step_calls) = Len(intra)
       /\ \A k \in DOMAIN step_calls :
            /\ step_calls[k] =
                 Call("AddNodeToSubmap", intra[k].node_id.trajectory_id,
                      intra[k].node_id.node_index, intra[k].submap_id.trajectory_id,
                      intra[k].submap_id.submap_index, -1, << >>)
            /\ << <<intra[k].node_id.trajectory_id, intra[k].node_id.node_index>>,
                  <<intra[k].submap_id.trajectory_id, intra[k].submap_id.submap_index>> >>
                 \in pose_graph_.node_to_submap
       /\ pose_graph_.constraints = graph_at_begin.constraints
       /\ pose_graph_.optimizations_scheduled = graph_at_begin.optimizations_scheduled
  /\ (StreamExhausted /\ ~load_frozen_state) =>
       /\ Len(step_calls) = 1
       /\ step_calls[1].op = "AddSerializedConstraints"
       /\ step_calls[1].list = pose_graph_proto.constraint
       /\ Len(step_calls[1].list) = Len(deserializer.pose_graph.constraint)
       /\ pose_graph_.optimizations_scheduled =
            graph_at_begin.optimizations_scheduled + 1
  /\ (pc \in {"allocate", "stream"} \/ (pc = "failed" /\ ~StreamExhausted)) =>
       /\ \A k \in DOMAIN step_calls :
            step_calls[k].op \notin {"AddNodeToSubmap", "AddSerializedConstraints"}
       /\ pose_graph_.constraints = graph_at_begin.constraints
       /\ pose_graph_.node_to_submap = graph_at_begin.node_to_submap
       /\ pose_graph_.optimizations_scheduled = graph_at_begin.optimizations_scheduled

\* a frozen load that restored a node has replayed an INTRA_SUBMAP constraint
C8_Witness ==
  /\ pc = "returned"
  /\ load_frozen_state
  /\ step_calls # << >>
  /\ step_calls[1].op = "AddNodeToSubmap"
  /\ DOMAIN pose_graph_.trajectory_nodes # DOMAIN graph_at_begin.trajectory_nodes

RawOp(kind) ==
  CASE kind = "kImuData" -> "AddImuData"
    [] kind = "kOdometryData" -> "AddOdometryData"
    [] kind = "kFixedFramePoseData" -> "AddFixedFramePoseData"
    [] kind = "kLandmarkData" -> "AddLandmarkData"

RestoreOp(kind) ==
  CASE kind = "kSubmap" -> "AddSubmapFromProto"
    [] kind = "kNode" -> "AddNodeFromProto"
    [] kind = "kTrajectoryData" -> "SetTrajectoryDataFromProto"

RawStores(pg) ==
  << pg.imu_data, pg.odometry_data, pg.fixed_frame_pose_data, pg.landmark_data >>

\* C9: in a frozen load a streamed IMU, odometry, fixed-frame-pose or
\* landmark record causes no call on the pose graph and leaves the raw-data
\* stores as they were, while submap, node and trajectory-data records are
\* still applied; in a non-frozen load each raw record is forwarded exactly
\* once, under the remapped trajectory id.
C9_RawRecordsInLoad ==
  /\ (pc # "idle" /\ load_frozen_state) =>
       RawStores(pose_graph_) = RawStores(graph_at_begin)
  /\ (JustDispatched /\ load_frozen_state /\ last_record.data_case \in RawDataKinds) =>
       (step_calls = << >> /\ pc = "stream" /\ failure = "")
  /\ (JustDispatched /\ pc = "stream"
      /\ last_record.data_case \in {"kSubmap", "kNode", "kTrajectoryData"}) =>
       /\ Len(step_calls) = 1
       /\ step_calls[1].op = RestoreOp(last_record.data_case)
       /\ step_calls[1].trajectory_id = trajectory_remapping[last_record.trajectory_id]
       /\ step_calls[1].index = last_record.index
  /\ (JustDispatched /\ pc = "stream" /\ ~load_frozen_state
      /\ last_record.data_case \in RawDataKinds) =>
       /\ step_calls = << CallT(RawOp(last_record.data_case),
                                trajectory_remapping[last_record.trajectory_id]) >>
       /\ RawDataCount(pose_graph_, trajectory_remapping[last_record.trajectory_id]) >= 1

\* a frozen load that restored a submap has just read a raw sensor record
C9_Witness ==
  /\ JustDispatched
  /\ load_frozen_state
  /\ last_record.data_case \in RawDataKinds
  /\ DOMAIN pose_graph_.submap_data # {}

\* the trajectories created by frozen loads that have returned
CompletedFrozenLoadIds ==
  { created[k].id :
      k \in { j \in DOMAIN created :
                /\ created[j].by = "LoadState"
                /\ created[j].frozen
                /\ (Idle \/ created[j].load < first_new) } }

\* C10: once a frozen load has returned, each trajectory it created is
\* frozen and stays frozen, and IMU, odometry, fixed-frame-pose or landmark
\* data fed to the pose graph for it later leaves its raw-data counts
\* unchanged (at zero) and raises no error.
C10_LoadedFrozenStaysFrozen ==
  \A t \in CompletedFrozenLoadIds :
    /\ IsTrajectoryFrozen(pose_graph_, t)
    /\ RawDataCount(pose_graph_, t) = 0
    /\ (pc = "idle" /\ last_record.trajectory_id = t) => failure = ""

\* raw data was fed for a trajectory of a returned frozen load
C10_Witness ==
  /\ pc = "idle"
  /\ last_record.data_case \in RawDataKinds
  /\ last_record.trajectory_id \in CompletedFrozenLoadIds

\* C13: there are as many recorded trajectory options as trajectory builder
\* slots in every state; AddTrajectoryBuilder, AddTrajectoryForDeserialization
\* and LoadState add one slot and one option record per trajectory created,
\* and no step removes or changes a slot or a record.
C13_OptionsMatchBuilders ==
  /\ [](Len(all_trajectory_builder_options_) = Len(trajectory_builders_))
  /\ [][ /\ Len(created') - Len(created) \in {0, 1}
         /\ Len(trajectory_builders_') = Len(trajectory_builders_)
                                         + (Len(created') - Len(created))
         /\ Len(all_trajectory_builder_options_') =
              Len(all_trajectory_builder_options_) + (Len(created') - Len(created))
         /\ \A k \in DOMAIN trajectory_builders_ :
              trajectory_builders_'[k] = trajectory_builders_[k]
         /\ \A k \in DOMAIN all_trajectory_builder_options_ :
              all_trajectory_builder_options_'[k] = all_trajectory_builder_options_[k]
       ]_vars

\* one trajectory from each of the three operations
C13_Witness ==
  /\ Len(trajectory_builders_) = 3
  /\ Len(all_trajectory_builder_options_) = 3
  /\ created[1].by = "AddTrajectoryBuilder"
  /\ created[2].by = "AddTrajectoryForDeserialization"
  /\ created[3].by = "LoadState"

SummaryRecordKinds == {"kPoseGraph", "kAllTrajectoryBuilderOptions"}

\* what a skipped record leaves alone
SkipLeaves ==
  UNCHANGED << pose_graph_, orchestrator, trajectory_remapping, pose_graph_proto,
               submap_poses, node_poses, created >>

\* C14: a pose-graph summary record or a trajectory-options summary record
\* met in the stream is skipped: no pose-graph call, no change of the
\* remapping, the trajectory list or the graph, no failure, and a
\* trajectory-data record read right after it is still applied.
C14_SummaryRecordsSkipped ==
  /\ []((JustDispatched /\ last_record.data_case \in SummaryRecordKinds) =>
          (step_calls = << >> /\ pc = "stream" /\ failure = ""))
  /\ [][(pc = "stream" /\ last_record'.data_case \in SummaryRecordKinds) =>
          (SkipLeaves /\ pc' = "stream")]_vars
  /\ [][(/\ pc = "stream"
         /\ last_record.data_case \in SummaryRecordKinds
         /\ last_record'.data_case = "kTrajectoryData"
         /\ last_record'.trajectory_id \in DOMAIN trajectory_remapping) =>
          step_calls' = << CallT("SetTrajectoryDataFromProto",
                                 trajectory_remapping[last_record'.trajectory_id]) >>
       ]_vars

\* a second pose-graph summary was skipped after a submap was restored
C14_Witness ==
  /\ JustDispatched
  /\ pc = "stream"
  /\ last_record.data_case = "kPoseGraph"
  /\ DOMAIN pose_graph_.submap_data # DOMAIN graph_at_begin.submap_data

IdCarryingKinds == {"kSubmap", "kNode", "kTrajectoryData"} \cup RawDataKinds

\* C15, as claimed: a streamed record whose trajectory id is no key of the
\* remapping ends the load in a failure without a pose-graph call, and a
\* load gets past the summary only if every constraint endpoint is a key.
C15_UnmappedIdAborts ==
  /\ (JustDispatched /\ last_record.data_case \in IdCarryingKinds
      /\ last_record.trajectory_id \notin DOMAIN trajectory_remapping) =>
       (pc = "failed" /\ failure # "" /\ step_calls = << >>)
  /\ pc \in {"stream", "returned"} =>
       \A k \in DOMAIN deserializer.pose_graph.constraint :
         CanRemapConstraint(trajectory_remapping, deserializer.pose_graph.constraint[k])

\* C16: a streamed record of none of the known types is skipped: no
\* pose-graph call, no change of the graph or the remapping, no failure, and
\* a trajectory-data record read right after it is still applied.
C16_UnknownRecordsSkipped ==
  /\ []((JustDispatched /\ last_record.data_case = "DATA_NOT_SET") =>
          (step_calls = << >> /\ pc = "stream" /\ failure = ""))
  /\ [][(pc = "stream" /\ last_record'.data_case = "DATA_NOT_SET") =>
          (SkipLeaves /\ pc' = "stream")]_vars
  /\ [][(/\ pc = "stream"
         /\ last_record.data_case = "DATA_NOT_SET"
         /\ last_record'.data_case = "kTrajectoryData"
         /\ last_record'.trajectory_id \in DOMAIN trajectory_remapping) =>
          step_calls' = << CallT("SetTrajectoryDataFromProto",
                                 trajectory_remapping[last_record'.trajectory_id]) >>
       ]_vars

\* a record of unknown type was skipped after a node was restored
C16_Witness ==
  /\ JustDispatched
  /\ pc = "stream"
  /\ last_record.data_case = "DATA_NOT_SET"
  /\ DOMAIN pose_graph_.trajectory_nodes # DOMAIN graph_at_begin.trajectory_nodes

\* the pose tables are built
TablesBuilt == pc \in {"stream", "returned"}

\* the keys (trajectory id, index) of the summary's submaps / nodes, the
\* trajectory id sent through f
SubmapKeysVia(f(_)) ==
  UNION { { << f(deserializer.pose_graph.trajectory[k].trajectory_id),
               deserializer.pose_graph.trajectory[k].submap[j].submap_index >> :
            j \in DOMAIN deserializer.pose_graph.trajectory[k].submap } :
          k \in DOMAIN deserializer.pose_graph.trajectory }
NodeKeysVia(f(_)) ==
  UNION { { << f(deserializer.pose_graph.trajectory[k].trajectory_id),
               deserializer.pose_graph.trajectory[k].node[j].node_index >> :
            j \in DOMAIN deserializer.pose_graph.trajectory[k].node } :
          k \in DOMAIN deserializer.pose_graph.trajectory }
SavedId(t) == t
RemappedId(t) == trajectory_remapping[t]

\* C19, as claimed: the two pose tables are keyed by the saved trajectory
\* id and index.
C19_TablesKeyedBySavedIds ==
  TablesBuilt =>
    /\ DOMAIN submap_poses = SubmapKeysVia(SavedId)
    /\ DOMAIN node_poses = NodeKeysVia(SavedId)

\* C19, amended: the two pose tables are keyed by the remapped trajectory id
\* and the saved index, and hold for each key the global pose the summary
\* lists for the saved submap / node.
C19_TablesKeyedByRemappedIds ==
  TablesBuilt =>
    /\ DOMAIN submap_poses = SubmapKeysVia(RemappedId)
    /\ DOMAIN node_poses = NodeKeysVia(RemappedId)
    /\ \A k \in DOMAIN deserializer.pose_graph.trajectory :
         LET t == deserializer.pose_graph.trajectory[k] IN
         /\ \A j \in DOMAIN t.submap :
              submap_poses[<<trajectory_remapping[t.trajectory_id],
                             t.submap[j].submap_index>>] = t.submap[j].pose.translation
         /\ \A j \in DOMAIN t.node :
              node_poses[<<trajectory_remapping[t.trajectory_id],
                           t.node[j].node_index>>] = t.node[j].pose.translation

\* the tables of a load that gave saved id 0 another id
C19_Witness ==
  /\ pc = "stream"
  /\ 0 \in DOMAIN trajectory_remapping
  /\ trajectory_remapping[0] # 0
  /\ <<trajectory_remapping[0], 1>> \in DOMAIN submap_poses
  /\ <<trajectory_remapping[0], 1>> \in DOMAIN node_poses

\* every trajectory id of LoadState's copy of the summary is the remapped one
SummaryFullyRewritten ==
  /\ \A k \in DOMAIN pose_graph_proto.trajectory :
       LET saved == deserializer.pose_graph.trajectory[k].trajectory_id IN
       /\ saved \in DOMAIN trajectory_remapping
       /\ pose_graph_proto.trajectory[k].trajectory_id = trajectory_remapping[saved]
  /\ \A k \in DOMAIN pose_graph_proto.constraint :
       LET c == pose_graph_proto.constraint[k]
           o == deserializer.pose_graph.constraint[k]
       IN /\ CanRemapConstraint(trajectory_remapping, o)
          /\ c.node_id.trajectory_id = trajectory_remapping[o.node_id.trajectory_id]
          /\ c.submap_id.trajectory_id = trajectory_remapping[o.submap_id.trajectory_id]

\* C20, as claimed: a step of LoadState that calls the pose graph comes only
\* when every trajectory id of the summary is rewritten.
C20_NoGraphCallBeforeRewrite ==
  pc # "idle" =>
    \A k \in DOMAIN step_calls :
      step_calls[k].op # "AddTrajectoryForDeserialization" => SummaryFullyRewritten

\* C20, amended: the only pose-graph operation LoadState performs before
\* every trajectory id of the summary is rewritten is FreezeTrajectory, in a
\* frozen load, of a trajectory it has just allocated and whose record it
\* has rewritten; a non-frozen load performs none.
C20_OnlyFreezeBeforeRewrite ==
  /\ pc # "idle" =>
       \A k \in DOMAIN step_calls :
         /\ step_calls[k].op \notin {"AddTrajectoryForDeserialization", "FreezeTrajectory"}
              => SummaryFullyRewritten
         /\ step_calls[k].op = "FreezeTrajectory" =>
              /\ load_frozen_state
              /\ \E j \in DOMAIN pose_graph_proto.trajectory :
                   /\ pose_graph_proto.trajectory[j].trajectory_id =
                        step_calls[k].trajectory_id
                   /\ trajectory_remapping[
                        deserializer.pose_graph.trajectory[j].trajectory_id] =
                        step_calls[k].trajectory_id
  /\ pc = "allocate" =>
       [pose_graph_ EXCEPT !.frozen = graph_at_begin.frozen] = graph_at_begin
  /\ (pc = "allocate" /\ ~load_frozen_state) => pose_graph_ = graph_at_begin

\* a frozen load has set the landmark poses after rewriting a constraint
\* under a remapping that changes ids
C20_Witness ==
  /\ pc = "stream"
  /\ load_frozen_state
  /\ pose_graph_proto.constraint # << >>
  /\ step_calls # << >>
  /\ step_calls[1].op = "SetLandmarkPose"
  /\ \E t \in DOMAIN trajectory_remapping : trajectory_remapping[t] # t

\* the last step was a call of the named operation
JustCalled(operation) == pc = "idle" /\ last_record.data_case = operation
\* the step is a call of the named operation
IsCallOf(operation) ==
  last_record'.data_case = operation /\ inputs_used' = inputs_used + 1

\* the id is none of the trajectories' ids
NoTrajectory(t) == t < 0 \/ t >= Len(trajectory_builders_)

\* C11: SubmapToProto with a trajectory id that is negative or not below
\* the number of trajectories returns a non-empty string and makes no call
\* on the pose graph; the step leaves the pose graph, the trajectory
\* builders, the options and the response as they were.
C11_OutOfRangeQuery ==
  /\ []((JustCalled("SubmapToProto") /\ NoTrajectory(last_record.trajectory_id)) =>
          (returned # "" /\ step_calls = << >> /\ failure = ""))
  /\ [][(IsCallOf("SubmapToProto") /\ NoTrajectory(last_record'.trajectory_id)) =>
          UNCHANGED << pose_graph_, orchestrator, response >>]_vars

\* a query for the trajectory id equal to the number of trajectories, after
\* a query that filled the response, on a graph holding submaps
C11_Witness ==
  /\ JustCalled("SubmapToProto")
  /\ last_record.trajectory_id = Len(trajectory_builders_)
  /\ returned # ""
  /\ response # NoResponse
  /\ DOMAIN pose_graph_.submap_data # {}

\* C12: SubmapToProto returns "" exactly when the trajectory id is one of
\* the trajectories' and the pose graph holds the submap, LocalSubmapToProto
\* exactly when the pose graph has a current local submap; an empty return
\* comes with the response filled from that submap; neither ends the
\* process nor changes the graph.
C12_QueryReturns ==
  /\ [](JustCalled("SubmapToProto") =>
          /\ returned = "" <=>
               (/\ ~NoTrajectory(last_record.trajectory_id)
                /\ HasSubmap(pose_graph_, last_record.trajectory_id, last_record.index))
          /\ returned = "" =>
               response = [submap |-> <<last_record.trajectory_id, last_record.index>>,
                           pose |-> pose_graph_.submap_data[
                                      <<last_record.trajectory_id, last_record.index>>]])
  /\ [](JustCalled("LocalSubmapToProto") =>
          /\ returned = "" <=> pose_graph_.local_current_submap # NullSubmap
          /\ returned = "" =>
               response = [submap |-> pose_graph_.local_current_submap,
                           pose |-> IdentityPose])
  /\ [](failure = "" /\ pc = "idle")
  /\ [][(IsCallOf("SubmapToProto") \/ IsCallOf("LocalSubmapToProto")) =>
          UNCHANGED << pose_graph_, orchestrator >>]_vars

\* a query for a submap that was trimmed (a later submap of the trajectory
\* is still there) got a message
C12_Witness ==
  /\ JustCalled("SubmapToProto")
  /\ ~NoTrajectory(last_record.trajectory_id)
  /\ ~HasSubmap(pose_graph_, last_record.trajectory_id, last_record.index)
  /\ \E j \in (last_record.index + 1)..MaxLiveSubmaps :
       HasSubmap(pose_graph_, last_record.trajectory_id, j)
  /\ returned # ""

\* C17: FinishTrajectory(id) calls the collator's FinishTrajectory(id) and
\* then the pose graph's FinishTrajectory(id), once each and nothing else; the
\* step marks id finished in both and changes nothing else of either.
C17_FinishCascades ==
  /\ [](JustCalled("FinishTrajectory") =>
          /\ Len(step_calls) = 2
          /\ step_calls[1] = CallT("sensor_collator_->FinishTrajectory",
                                   last_record.trajectory_id)
          /\ step_calls[2] = CallT("pose_graph_->FinishTrajectory",
                                   last_record.trajectory_id)
          /\ last_record.trajectory_id \in collator_finished
          /\ last_record.trajectory_id \in pose_graph_.finished)
  /\ [][IsCallOf("FinishTrajectory") =>
          /\ collator_finished' = collator_finished \cup {last_record'.trajectory_id}
          /\ pose_graph_' = [pose_graph_ EXCEPT
                               !.finished = @ \cup {last_record'.trajectory_id}]
          /\ UNCHANGED << orchestrator, response, returned >>]_vars

\* trajectory 1 was finished after trajectory 0
C17_Witness ==
  /\ JustCalled("FinishTrajectory")
  /\ last_record.trajectory_id = 1
  /\ collator_finished = {0, 1}
  /\ pose_graph_.finished = {0, 1}

\* the global poses the summary, as the deserializer read it, lists for
\* saved submap / node (t, i)
SummarySubmapPoses(t, i) ==
  UNION { { ToRigid3(deserializer.pose_graph.trajectory[k].submap[j].pose) :
            j \in { h \in DOMAIN deserializer.pose_graph.trajectory[k].submap :
                      deserializer.pose_graph.trajectory[k].submap[h].submap_index = i } } :
          k \in { h \in DOMAIN deserializer.pose_graph.trajectory :
                    deserializer.pose_graph.trajectory[h].trajectory_id = t } }
SummaryNodePoses(t, i) ==
  UNION { { ToRigid3(deserializer.pose_graph.trajectory[k].node[j].pose) :
            j \in { h \in DOMAIN deserializer.pose_graph.trajectory[k].node :
                      deserializer.pose_graph.trajectory[k].node[h].node_index = i } } :
          k \in { h \in DOMAIN deserializer.pose_graph.trajectory :
                    deserializer.pose_graph.trajectory[h].trajectory_id = t } }

\* a load is running, or has just returned or failed
InLoad == pc \in {"allocate", "stream", "returned", "failed"}

\* the record just dispatched is of this kind and its trajectory id is mapped
JustDispatchedMapped(kind) ==
  /\ JustDispatched
  /\ last_record.data_case = kind
  /\ last_record.trajectory_id \in DOMAIN trajectory_remapping

\* C21: after a streamed submap or node record with saved id (t, i), t
\* mapped, was dispatched, the pose graph holds (remap(t), i) with exactly the
\* global pose the summary lists for saved (t, i), and the call that
\* registered it carried that id and pose; if the summary lists no pose for
\* (t, i), the load has failed without a call and the graph does not hold
\* (remap(t), i). Every submap and node the load registered has the
\* summary's pose.
C21_RestoredAtSummaryPose ==
  /\ JustDispatchedMapped("kSubmap") =>
       LET new == trajectory_remapping[last_record.trajectory_id]
           listed == SummarySubmapPoses(last_record.trajectory_id, last_record.index)
       IN IF listed = {}
          THEN /\ pc = "failed"
               /\ step_calls = << >>
               /\ ~HasSubmap(pose_graph_, new, last_record.index)
          ELSE /\ HasSubmap(pose_graph_, new, last_record.index)
               /\ listed = {pose_graph_.submap_data[<<new, last_record.index>>]}
               /\ pc = "stream" =>
                    step_calls =
                      << Call("AddSubmapFromProto", new, last_record.index, -1, -1,
                              pose_graph_.submap_data[<<new, last_record.index>>],
                              << >>) >>
               /\ pc = "failed" => step_calls = << >>
  /\ JustDispatchedMapped("kNode") =>
       LET new == trajectory_remapping[last_record.trajectory_id]
           listed == SummaryNodePoses(last_record.trajectory_id, last_record.index)
       IN IF listed = {}
          THEN /\ pc = "failed"
               /\ step_calls = << >>
               /\ ~HasNode(pose_graph_, new, last_record.index)
          ELSE /\ HasNode(pose_graph_, new, last_record.index)
               /\ listed = {pose_graph_.trajectory_nodes[<<new, last_record.index>>]}
               /\ pc = "stream" =>
                    step_calls =
                      << Call("AddNodeFromProto", new, last_record.index, -1, -1,
                              pose_graph_.trajectory_nodes[<<new, last_record.index>>],
                              << >>) >>
               /\ pc = "failed" => step_calls = << >>
  /\ InLoad =>
       /\ \A key \in DOMAIN pose_graph_.submap_data \ DOMAIN graph_at_begin.submap_data :
            \E t \in DOMAIN trajectory_remapping :
              /\ trajectory_remapping[t] = key[1]
              /\ SummarySubmapPoses(t, key[2]) = {pose_graph_.submap_data[key]}
       /\ \A key \in DOMAIN pose_graph_.trajectory_nodes
                       \ DOMAIN graph_at_begin.trajectory_nodes :
            \E t \in DOMAIN trajectory_remapping :
              /\ trajectory_remapping[t] = key[1]
              /\ SummaryNodePoses(t, key[2]) = {pose_graph_.trajectory_nodes[key]}

\* a node record was restored under an id that differs from its saved id
C21_Witness ==
  /\ JustDispatchedMapped("kNode")
  /\ pc = "stream"
  /\ trajectory_remapping[last_record.trajectory_id] # last_record.trajectory_id
  /\ HasNode(pose_graph_, trajectory_remapping[last_record.trajectory_id],
             last_record.index)

GrownIn(store, before) ==
  { t \in DOMAIN store : t \notin DOMAIN before \/ store[t] # before[t] }

\* C23: every call a streamed record causes carries the remapped trajectory
\* id of the record, which is the id of a trajectory this load allocated and
\* lies in [0, num_trajectory_builders()); everything the load has added to
\* the graph's submaps, nodes, trajectory data and raw-data stores lies
\* under ids this load allocated.
C23_RecordsUnderNewIds ==
  /\ (JustDispatched /\ step_calls # << >>) =>
       /\ Len(step_calls) = 1
       /\ last_record.trajectory_id \in DOMAIN trajectory_remapping
       /\ step_calls[1].trajectory_id = trajectory_remapping[last_record.trajectory_id]
       /\ step_calls[1].trajectory_id \in NewTrajectories
       /\ step_calls[1].trajectory_id >= 0
       /\ step_calls[1].trajectory_id < Len(trajectory_builders_)
       /\ \E j \in DOMAIN created :
            /\ created[j].id = step_calls[1].trajectory_id
            /\ created[j].by = "LoadState"
            /\ created[j].saved = last_record.trajectory_id
  /\ (pc \in {"allocate", "stream"} \/ JustDispatched) =>
       /\ \A key \in DOMAIN pose_graph_.submap_data \ DOMAIN graph_at_begin.submap_data :
            key[1] \in NewTrajectories
       /\ \A key \in DOMAIN pose_graph_.trajectory_nodes
                       \ DOMAIN graph_at_begin.trajectory_nodes :
            key[1] \in NewTrajectories
       /\ pose_graph_.trajectory_data \ graph_at_begin.trajectory_data
            \subseteq NewTrajectories
       /\ \A s \in 1..4 :
            GrownIn(RawStores(pose_graph_)[s], RawStores(graph_at_begin)[s])
              \subseteq NewTrajectories

\* a raw record of a non-frozen load into an orchestrator that had a
\* trajectory was stored under an id that differs from the saved id
C23_Witness ==
  /\ JustDispatched
  /\ pc = "stream"
  /\ last_record.data_case = "kImuData"
  /\ first_new > 0
  /\ step_calls # << >>
  /\ step_calls[1].trajectory_id # last_record.trajectory_id
  /\ step_calls[1].trajectory_id \in DOMAIN pose_graph_.imu_data

\* the membership pairs of the INTRA_SUBMAP constraints of a list
IntraMembership(constraints) ==
  { << <<constraints[k].node_id.trajectory_id, constraints[k].node_id.node_index>>,
       <<constraints[k].submap_id.trajectory_id,
         constraints[k].submap_id.submap_index>> >> :
    k \in { j \in DOMAIN constraints : constraints[j].tag = "INTRA_SUBMAP" } }

\* C24: a frozen load never adds a constraint to the pose graph and
\* schedules no optimization; when it has gone through its replay the
\* membership is what it was plus the pairs of the summary's INTRA_SUBMAP
\* constraints, and before that the membership is untouched; no step of it
\* calls AddSerializedConstraints.
C24_FrozenLoadAddsNoConstraint ==
  (InLoad /\ load_frozen_state) =>
    /\ pose_graph_.constraints = graph_at_begin.constraints
    /\ pose_graph_.optimizations_scheduled = graph_at_begin.optimizations_scheduled
    /\ \A k \in DOMAIN step_calls : step_calls[k].op # "AddSerializedConstraints"
    /\ pose_graph_.node_to_submap =
         IF StreamExhausted
         THEN graph_at_begin.node_to_submap
                \cup IntraMembership(pose_graph_proto.constraint)
         ELSE graph_at_begin.node_to_submap

\* a frozen load of a summary with an INTER_SUBMAP constraint has returned
C24_Witness ==
  /\ pc = "returned"
  /\ load_frozen_state
  /\ \E k \in DOMAIN pose_graph_proto.constraint :
       pose_graph_proto.constraint[k].tag = "INTER_SUBMAP"

\* the summary lists a saved trajectory id twice
HasDuplicateSavedId ==
  \E j, k \in DOMAIN deserializer.pose_graph.trajectory :
    /\ j # k
    /\ deserializer.pose_graph.trajectory[j].trajectory_id =
         deserializer.pose_graph.trajectory[k].trajectory_id

\* C25: a load whose summary lists a saved trajectory id twice never gets
\* to the stream: it is in the allocation loop or has ended with the
\* duplicate-trajectory-id failure, no record was dispatched, and the graph
\* got no submap or node; in every load each saved id is mapped to the first
\* id allocated for it and to no other.
C25_DuplicateIdFatal ==
  /\ (InLoad /\ HasDuplicateSavedId) =>
       /\ pc \in {"allocate", "failed"}
       /\ pc = "failed" => failure = "Duplicate trajectory ID"
       /\ last_record = NoRecord
       /\ pose_graph_.submap_data = graph_at_begin.submap_data
       /\ pose_graph_.trajectory_nodes = graph_at_begin.trajectory_nodes
  /\ InLoad =>
       \A old \in DOMAIN trajectory_remapping :
         \E j \in DOMAIN created :
           /\ created[j].id = trajectory_remapping[old]
           /\ created[j].id >= first_new
           /\ created[j].saved = old
           /\ \A h \in 1..(j - 1) :
                ~(created[h].id >= first_new /\ created[h].saved = old)

\* a frozen load has ended on the second occurrence of a saved id
C25_Witness ==
  /\ pc = "failed"
  /\ failure = "Duplicate trajectory ID"
  /\ load_frozen_state
  /\ HasDuplicateSavedId
  /\ Len(trajectory_builders_) = first_new + 2

\* the trimmer AddTrajectoryBuilder registers for a pure-localization
\* trajectory
PureLocalizationTrimmerOf(id) ==
  [kind |-> "PureLocalizationTrimmer", trajectory_id |-> id, keep |-> 3]

\* C27: a trajectory made by AddTrajectoryBuilder has a pure-localization
\* trimmer keeping 3 submaps bound to its id exactly if its options set
\* pure_localization, and an initial pose exactly if its options carry one;
\* a trajectory made by AddTrajectoryForDeserialization or LoadState has no
\* trimmer bound to its id and no initial pose, whatever its recorded
\* options; every pure-localization trimmer is one of these; a step that
\* creates a trajectory for deserialization leaves trimmers and initial
\* poses as they were.
C27_TrimmerAndInitialPose ==
  /\ [](\A j \in DOMAIN created :
          LET id == created[j].id
              options == all_trajectory_builder_options_[id + 1]
          IN IF created[j].by = "AddTrajectoryBuilder"
             THEN /\ PureLocalizationTrimmerOf(id) \in pose_graph_.trimmers
                       <=> options.pure_localization
                  /\ id \in pose_graph_.initial_trajectory_poses
                       <=> options.has_initial_trajectory_pose
             ELSE /\ \A trimmer \in pose_graph_.trimmers : trimmer.trajectory_id # id
                  /\ id \notin pose_graph_.initial_trajectory_poses)
  /\ [](\A trimmer \in pose_graph_.trimmers :
          trimmer.kind = "PureLocalizationTrimmer" =>
            \E j \in DOMAIN created :
              /\ created[j].by = "AddTrajectoryBuilder"
              /\ trimmer = PureLocalizationTrimmerOf(created[j].id))
  /\ [][(Len(created') = Len(created) + 1
         /\ created'[Len(created')].by # "AddTrajectoryBuilder") =>
          /\ pose_graph_'.trimmers = pose_graph_.trimmers
          /\ pose_graph_'.initial_trajectory_poses =
               pose_graph_.initial_trajectory_poses]_vars

\* a pure-localization trajectory without initial pose from
\* AddTrajectoryBuilder, then a load whose trajectory's recorded options set
\* pure_localization and carry an initial pose
C27_Witness ==
  /\ pc = "returned"
  /\ Len(created) = 2
  /\ created[1].by = "AddTrajectoryBuilder"
  /\ all_trajectory_builder_options_[1] = OptionsC
  /\ created[2].by = "LoadState"
  /\ all_trajectory_builder_options_[2] = OptionsB
  /\ pose_graph_.trimmers = {PureLocalizationTrimmerOf(0)}

\* C28, as claimed: once the allocation loop is through, for every summary
\* trajectory with saved id k the options summary has a k-th entry (from 0)
\* and the option record stored for remap(k) equals it.
C28_OptionsBySavedId ==
  pc \in {"stream", "returned"} =>
    \A k \in DOMAIN trajectory_remapping :
      /\ k + 1 \in DOMAIN deserializer.all_trajectory_builder_options
      /\ all_trajectory_builder_options_[trajectory_remapping[k] + 1] =
           deserializer.all_trajectory_builder_options[k + 1]

\* the landmark step of a load has just run
JustPrepared == pc = "stream" /\ last_record = NoRecord

\* the SetLandmarkPose call for one landmark of the summary
SummaryLandmarkCall(landmark) ==
  [CallT("SetLandmarkPose", -1) EXCEPT
     !.pose = ToRigid3(landmark.global_pose),
     !.list = << landmark.landmark_id >>]

\* the position of the last call for this landmark id
LastCallFor(calls, id) ==
  CHOOSE k \in DOMAIN calls :
    /\ calls[k].list = << id >>
    /\ \A j \in DOMAIN calls : calls[j].list = << id >> => j <= k

\* C26: right after the landmark step of a load, frozen or not, the step has
\* called SetLandmarkPose once for every landmark of the summary, in the
\* summary's order, with its id and pose, and then once for every line of
\* the landmark file (a well-formed line with the id to_string(index) and
\* its pose); each id that was set holds the pose of the last call for it,
\* so a later summary entry replaces an earlier one and a file entry
\* replaces a summary entry of the same id; landmarks not set keep the pose
\* they had; the stream and the replay leave the landmark poses alone.
C26_LandmarksLastWriteWins ==
  /\ [](JustPrepared =>
          LET summary == pose_graph_proto.landmark_poses
              lines == landmark_poses_file.lines
              n == Len(summary)
          IN /\ Len(step_calls) = n + Len(lines)
             /\ \A k \in 1..n : step_calls[k] = SummaryLandmarkCall(summary[k])
             /\ \A k \in DOMAIN lines :
                  /\ step_calls[n + k].op = "SetLandmarkPose"
                  /\ lines[k].well_formed =>
                       /\ step_calls[n + k].list = << to_string(lines[k].index) >>
                       /\ step_calls[n + k].pose = lines[k].pose
             /\ \A k \in DOMAIN step_calls :
                  LET id == step_calls[k].list[1] IN
                  /\ id \in DOMAIN pose_graph_.landmark_poses
                  /\ pose_graph_.landmark_poses[id] =
                       step_calls[LastCallFor(step_calls, id)].pose
             /\ \A k \in DOMAIN lines :
                  (/\ lines[k].well_formed
                   /\ \A j \in DOMAIN lines :
                        j > k => step_calls[n + j].list # << to_string(lines[k].index) >>)
                  => pose_graph_.landmark_poses[to_string(lines[k].index)] = lines[k].pose
             /\ \A id \in DOMAIN pose_graph_.landmark_poses :
                  (\A k \in DOMAIN step_calls : step_calls[k].list # << id >>) =>
                    /\ id \in DOMAIN graph_at_begin.landmark_poses
                    /\ pose_graph_.landmark_poses[id] = graph_at_begin.landmark_poses[id])
  /\ [][pc = "stream" =>
          pose_graph_'.landmark_poses = pose_graph_.landmark_poses]_vars

\* a frozen load whose summary sets landmark "1" and whose file has two
\* lines for index 1: the landmark holds the pose of the second line
C26_Witness ==
  /\ JustPrepared
  /\ load_frozen_state
  /\ \E k \in DOMAIN pose_graph_proto.landmark_poses :
       pose_graph_proto.landmark_poses[k].landmark_id = "1"
  /\ landmark_poses_file.lines = << FileLine(1, 41), FileLine(1, 43) >>
  /\ pose_graph_.landmark_poses["1"] = 43

\* the landmark poses after these SetLandmarkPose calls, in order
RECURSIVE AfterLandmarkCalls(_, _)
AfterLandmarkCalls(poses, calls) ==
  IF calls = << >> THEN poses
  ELSE AfterLandmarkCalls((Head(calls).list[1] :> Head(calls).pose) @@ poses, Tail(calls))

\* the step of LoadStateLandmark that follows the allocation loop
LandmarkStepNext == pc = "allocate" /\ next_trajectory > Len(pose_graph_proto.trajectory)

\* C29: with a landmark file that cannot be opened or has no line, the
\* step of LoadStateLandmark that sets the landmarks is LoadState's step
\* (same calls, same pose graph, same tables, same outcome); with a file
\* that has lines the step fails exactly as LoadState's does, or it makes
\* LoadState's calls followed by one SetLandmarkPose per line and leaves a
\* pose graph that differs from LoadState's only in the landmark poses these
\* extra calls set, before any record is read; every other step of
\* LoadStateLandmark (allocation, stream, replay) is a step of LoadState.
C29_LikeLoadStateButForFile ==
  [][ /\ LandmarkStepNext =>
           IF landmark_poses_file.lines = << >> \/ pc' = "failed"
           THEN LoadPrepare
           ELSE LET reference ==
                      SetLandmarkPoses(pose_graph_, pose_graph_proto'.landmark_poses)
                    reference_calls == LandmarkCalls(pose_graph_proto'.landmark_poses)
                    n == Len(reference_calls)
                    extra == SubSeq(step_calls', n + 1, Len(step_calls'))
                IN /\ pc' = "stream"
                   /\ last_record' = NoRecord
                   /\ SubSeq(step_calls', 1, n) = reference_calls
                   /\ Len(extra) = Len(landmark_poses_file.lines)
                   /\ \A k \in DOMAIN extra : extra[k].op = "SetLandmarkPose"
                   /\ [pose_graph_' EXCEPT !.landmark_poses = reference.landmark_poses]
                        = reference
                   /\ pose_graph_'.landmark_poses =
                        AfterLandmarkCalls(reference.landmark_poses, extra)
                   /\ pose_graph_proto' =
                        [pose_graph_proto EXCEPT
                           !.constraint =
                             [k \in DOMAIN @ |->
                                RemapConstraint(trajectory_remapping, @[k])]]
                   /\ submap_poses' = MapByIdOf(SubmapPoseEntries(pose_graph_proto'))
                   /\ node_poses' = MapByIdOf(NodePoseEntries(pose_graph_proto'))
                   /\ UNCHANGED << orchestrator, trajectory_remapping, failure, created,
                                   load_frozen_state, deserializer >>
      /\ (~LandmarkStepNext /\ pc \in {"allocate", "stream"}) =>
           \/ LoadAllocateTrajectory
           \/ \E r \in StreamRecordsLandmark : LoadReadRecord(r)
           \/ \E eof \in BOOLEAN : LoadFinish(eof) ]_vars

\* LoadStateLandmark, called on an orchestrator that had a trajectory, with
\* a file of one line, has set the summary's landmarks and then the file's
C29_Witness ==
  /\ JustPrepared
  /\ first_new > 0
  /\ landmark_poses_file.opens
  /\ Len(landmark_poses_file.lines) = 1
  /\ pose_graph_proto.landmark_poses # << >>
  /\ Len(step_calls) = Len(pose_graph_proto.landmark_poses) + 1

\* the points of a cloud that lie closer than the safety distance
CloserPoints(points) ==
  { k \in DOMAIN points :
      points[k].x * points[k].x + points[k].y * points[k].y
        < safety_distance * safety_distance }

====
